---- MODULE Spec2Model ----
(***************************************************************************)
(* SmartHomeSim: the tick-evaluated task queue (Scheduler), its trigger    *)
(* policies (OneTimeSchedule, PeriodicSchedule, DelayedSchedule) and the   *)
(* devices the scheduled tasks act on (SmartDevice, DeviceController).     *)
(*                                                                         *)
(* Spec        the core driven by an arbitrary caller: addDevice, addTask, *)
(*             update(t) for any t, clearTasks, toggleDevice.              *)
(* LateSpec    periodic tasks queued before their devices are registered.  *)
(* DelayedSpec delayed tasks queued before their devices are registered.   *)
(* PolicySpec  one trigger policy instance under an arbitrary sequence of  *)
(*             shouldTrigger / isDone calls.                               *)
(* NotifySpec  a Fan and a Light with their observers, under attach,       *)
(*             setState, toggle, sensor readings and scheduled tasks.      *)
(* HomeSpec    two Thermostats with their temperature policies, under      *)
(*             subscribe, sensor readings, setStrategy and toggle.         *)
(* MainSpec    the command loop of main: add, sensor, schedule, tick,      *)
(*             reset and toggle-by-name, with the time counter and the     *)
(*             logger's history.                                           *)
(* PlanSpec    the command loop without reset, with tasks of every kind    *)
(*             for the Thermostat and a second device under its name.      *)
(* FairSpec    schedule and tick only, the tick command typed again and    *)
(*             again.                                                      *)
(***************************************************************************)
EXTENDS Integers, Sequences, FiniteSets

VARIABLES
    devices,     \* DeviceController::devices, the registry the Scheduler points to
    tasks,       \* Scheduler::tasks
    halted,      \* the process was terminated by a hardware trap
    pol,         \* PolicySpec: the policy instance under test
    calls,       \* PolicySpec: the shouldTrigger calls made on it, in order
    subscribers, \* Sensor::subscribers, as positions in the registry
    heap,        \* the live TemperatureStrategy objects
    policies,    \* the number of live SchedulingStrategy objects handed to addTask
    clock,       \* MainSpec: main's currentTime
    logs         \* MainSpec: DeviceLogger::logs of main's logger

vars == <<devices, tasks, halted, pol, calls, subscribers, heap, policies, clock, logs>>

----------------------------------------------------------------------------
(* Bounds of the model *)

MaxTime == 2     \* update and shouldTrigger are called with times up to MaxTime
MaxTasks == 2    \* the task queue holds at most MaxTasks tasks
MaxCalls == 3    \* PolicySpec makes at most MaxCalls calls on the policy
MaxParam == 2    \* PolicySpec constructs policies with parameters up to MaxParam
MaxAttach == 2   \* NotifySpec makes at most MaxAttach attach calls in all
MaxQueued == 1   \* NotifySpec queues at most MaxQueued tasks
MaxObjects == 3  \* HomeSpec keeps at most MaxObjects policy objects allocated
MaxSubscribers == 3   \* NotifySpec lets the subscriber list grow to MaxSubscribers
MaxClock == 2    \* MainSpec ticks until the time counter is MaxClock
MaxLogs == 2     \* MainSpec lets the logger keep at most MaxLogs entries
MaxDevices == 4  \* MainSpec registers at most MaxDevices devices
MaxTicks == 3    \* runs of consecutive tick commands are followed for MaxTicks ticks

Times == 0..MaxTime
DeviceNames == {"F1", "L1"}   \* the device names tasks refer to
SpecDevices == {"F1"}         \* the devices Spec creates: L1 is never created there
Logger == "logger"
Observers == {Logger, "logger2"}   \* two DeviceLogger objects
SensorValues == {27, 28, 29}       \* readings around the threshold of 28

\* what a build may do with the undefined `currentTime % 0`
DivZeroOutcomes == {"trap", "true", "false"}

----------------------------------------------------------------------------
(* Trigger policies *)

OneTimeSchedule(time) == [kind |-> "OneTime", triggerTime |-> time]
PeriodicSchedule(intervalSeconds) == [kind |-> "Periodic", interval |-> intervalSeconds]
DelayedSchedule(time) == [kind |-> "Delayed", startTime |-> time, triggered |-> FALSE]

Abs(x) == IF x < 0 THEN -x ELSE x

Range(q) == {q[k] : k \in 1..Len(q)}

\* the C++ remainder a % b for b # 0: truncated division, sign of the dividend
CRem(a, b) == IF a >= 0 THEN a % Abs(b) ELSE -((-a) % Abs(b))

\* each shouldTrigger yields the value returned, the policy object after the
\* call and whether the call trapped
\* variant: the comparison written >= instead of ==
OneTimeShouldTriggerFrom(s, currentTime) ==
    [ret |-> currentTime >= s.triggerTime, strategy |-> s, fault |-> FALSE]

OneTimeShouldTrigger(s, currentTime) ==
    [ret |-> currentTime = s.triggerTime, strategy |-> s, fault |-> FALSE]

\* variant: time 0 is not treated as a multiple of the interval
PeriodicShouldTriggerSkipZero(s, currentTime, ub) ==
    IF s.interval = 0
    THEN [ret |-> ub = "true", strategy |-> s, fault |-> ub = "trap"]
    ELSE [ret |-> currentTime # 0 /\ CRem(currentTime, s.interval) = 0,
          strategy |-> s, fault |-> FALSE]

PeriodicShouldTrigger(s, currentTime, ub) ==
    IF s.interval = 0
    THEN [ret |-> ub = "true", strategy |-> s, fault |-> ub = "trap"]
    ELSE [ret |-> CRem(currentTime, s.interval) = 0, strategy |-> s, fault |-> FALSE]

\* variant: the triggered flag is never set
DelayedShouldTriggerNoFlag(s, currentTime) ==
    IF ~s.triggered /\ currentTime >= s.startTime
    THEN [ret |-> TRUE, strategy |-> s, fault |-> FALSE]
    ELSE [ret |-> FALSE, strategy |-> s, fault |-> FALSE]

\* variant: the policy fires only at its start time, not after it
DelayedShouldTriggerExact(s, currentTime) ==
    IF ~s.triggered /\ currentTime = s.startTime
    THEN [ret |-> TRUE, strategy |-> [s EXCEPT !.triggered = TRUE], fault |-> FALSE]
    ELSE [ret |-> FALSE, strategy |-> s, fault |-> FALSE]

DelayedShouldTrigger(s, currentTime) ==
    IF ~s.triggered /\ currentTime >= s.startTime
    THEN [ret |-> TRUE, strategy |-> [s EXCEPT !.triggered = TRUE], fault |-> FALSE]
    ELSE [ret |-> FALSE, strategy |-> s, fault |-> FALSE]

ShouldTrigger(s, currentTime, ub) ==
    CASE s.kind = "OneTime" -> OneTimeShouldTrigger(s, currentTime)
      [] s.kind = "Periodic" -> PeriodicShouldTrigger(s, currentTime, ub)
      [] s.kind = "Delayed" -> DelayedShouldTrigger(s, currentTime)

\* variant: PeriodicSchedule does not override the default isDone()
IsDoneDefault(s) ==
    CASE s.kind = "OneTime" -> TRUE
      [] s.kind = "Periodic" -> TRUE
      [] s.kind = "Delayed" -> s.triggered

IsDone(s) ==
    CASE s.kind = "OneTime" -> TRUE
      [] s.kind = "Periodic" -> FALSE
      [] s.kind = "Delayed" -> s.triggered

----------------------------------------------------------------------------
(* Devices *)

TypeOf(name) == IF name = "F1" THEN "Fan" ELSE "Light"

SmartDevice(deviceName) ==
    [name |-> deviceName, type |-> TypeOf(deviceName), isOn |-> FALSE, observers |-> <<>>]

Attach(dev, o) == [dev EXCEPT !.observers = Append(@, o)]

\* variant: an observer attached several times is told once
NotifyOnce(dev) ==
    LET first == {k \in 1..Len(dev.observers) :
                     \A j \in 1..(k - 1) : dev.observers[j] # dev.observers[k]}
        keep == SelectSeq([k \in 1..Len(dev.observers) |-> k], LAMBDA k : k \in first)
    IN [k \in 1..Len(keep) |->
        [observer |-> dev.observers[keep[k]], type |-> dev.type, name |-> dev.name,
         isOn |-> dev.isOn]]

\* the Observer::update calls of one notify(), in attach order
Notify(dev) ==
    [k \in 1..Len(dev.observers) |->
        [observer |-> dev.observers[k], type |-> dev.type, name |-> dev.name, isOn |-> dev.isOn]]

\* variant: notify() is called whether or not the state changes
SetStateAlwaysNotify(dev, on) ==
    LET d == [dev EXCEPT !.isOn = on]
    IN [device |-> d, notes |-> Notify(d), applied |-> <<>>]

\* variant: setState is virtual and the Thermostat applies its policy when
\* it is switched on, as its toggle does
SetStateApplying(dev, on) ==
    IF dev.isOn # on
    THEN LET d == [dev EXCEPT !.isOn = on] IN
         [device |-> d, notes |-> Notify(d),
          applied |-> IF dev.type = "Thermostat" /\ dev.strategy # 0 /\ on
                      THEN <<[ptr |-> dev.strategy, isOn |-> on,
                              notified |-> Len(dev.observers)]>>
                      ELSE <<>>]
    ELSE [device |-> dev, notes |-> <<>>, applied |-> <<>>]

\* SmartDevice::setState, which no device class overrides.  applied lists the
\* strategy->apply() calls the call makes: it has none to make
SetState(dev, on) ==
    IF dev.isOn # on
    THEN LET d == [dev EXCEPT !.isOn = on]
         IN [device |-> d, notes |-> Notify(d), applied |-> <<>>]
    ELSE [device |-> dev, notes |-> <<>>, applied |-> <<>>]

\* variant: toggle() flips the state without calling notify()
ToggleNoNotify(dev) ==
    LET d == [dev EXCEPT !.isOn = ~dev.isOn] IN [device |-> d, notes |-> <<>>]

Toggle(dev) ==
    LET d == [dev EXCEPT !.isOn = ~dev.isOn] IN [device |-> d, notes |-> Notify(d)]

----------------------------------------------------------------------------
(* Thermostat and its temperature policies *)

ThermostatNames == {"T1", "T2"}
Modes == {"Eco", "Comfort"}     \* EcoMode, ComfortMode

\* a Thermostat is a SmartDevice with a strategy pointer: 0 is nullptr, any
\* other value is the id of an object of heap
Thermostat(deviceName) ==
    [name |-> deviceName, type |-> "Thermostat", isOn |-> FALSE, observers |-> <<>>,
     strategy |-> 0]

\* DeviceFactory::createDevice, the type being decided by the name
CreateDevice(name) ==
    IF name \in ThermostatNames THEN Thermostat(name) ELSE SmartDevice(name)

Ids(hp) == {o.id : o \in hp}

\* new EcoMode() / new ComfortMode(): the object gets the lowest free id
New(hp, mode) ==
    LET p == CHOOSE i \in 1..(Cardinality(hp) + 1) :
                 i \notin Ids(hp) /\ \A j \in 1..(i - 1) : j \in Ids(hp)
    IN [heap |-> hp \cup {[id |-> p, mode |-> mode]}, ptr |-> p]

\* delete p; deleting nullptr does nothing
Delete(hp, p) == {o \in hp : o.id # p}

ModeAt(hp, p) == (CHOOSE o \in hp : o.id = p).mode

\* variant: the held policy is applied whatever the new state is
ThermostatToggleAlways(dev) ==
    LET r == Toggle(dev) IN
    [device |-> r.device, notes |-> r.notes,
     applied |-> IF dev.strategy # 0
                 THEN <<[ptr |-> dev.strategy, isOn |-> r.device.isOn,
                         notified |-> Len(r.notes)]>>
                 ELSE <<>>]

\* Thermostat::toggle.  applied lists the strategy->apply() calls made, each
\* with the object applied, the device state at that moment and the number of
\* Observer::update calls already made by this call
ThermostatToggle(dev) ==
    LET r == Toggle(dev) IN
    [device |-> r.device, notes |-> r.notes,
     applied |-> IF dev.strategy # 0 /\ r.device.isOn
                 THEN <<[ptr |-> dev.strategy, isOn |-> r.device.isOn,
                         notified |-> Len(r.notes)]>>
                 ELSE <<>>]

\* the virtual call d->toggle()
VirtualToggle(dev) ==
    IF dev.type = "Thermostat" THEN ThermostatToggle(dev)
    ELSE LET r == Toggle(dev) IN [device |-> r.device, notes |-> r.notes, applied |-> <<>>]

\* variant: the policy is applied and the observers are told as well
ApplyTemperatureStrategyNotify(dev) ==
    [device |-> dev, notes |-> Notify(dev),
     applied |-> IF dev.strategy # 0
                 THEN <<[ptr |-> dev.strategy, isOn |-> dev.isOn, notified |-> 0]>>
                 ELSE <<>>]

\* Thermostat::applyTemperatureStrategy
ApplyTemperatureStrategy(dev) ==
    [device |-> dev, notes |-> <<>>,
     applied |-> IF dev.strategy # 0
                 THEN <<[ptr |-> dev.strategy, isOn |-> dev.isOn, notified |-> 0]>>
                 ELSE <<>>]

\* Thermostat::setStrategy(s)
SetStrategy(dev, s) == [dev EXCEPT !.strategy = s]

\* each onSensorTriggered yields the device and the heap after the reaction
\* and the Observer::update and strategy->apply() calls it made
\* variant: the threshold is taken as >= 28
ThermostatOnSensorTriggeredFrom(dev, hp, value) ==
    LET n == New(Delete(hp, dev.strategy), IF value >= 28 THEN "Comfort" ELSE "Eco")
    IN [device |-> [dev EXCEPT !.strategy = n.ptr], heap |-> n.heap,
        notes |-> <<>>, applied |-> <<>>]

\* variant: the new policy is applied at once, as the disabled call would do
ThermostatOnSensorTriggeredApply(dev, hp, value) ==
    LET n == New(Delete(hp, dev.strategy), IF value > 28 THEN "Comfort" ELSE "Eco")
    IN [device |-> [dev EXCEPT !.strategy = n.ptr], heap |-> n.heap,
        notes |-> <<>>,
        applied |-> <<[ptr |-> n.ptr, isOn |-> dev.isOn, notified |-> 0]>>]

ThermostatOnSensorTriggered(dev, hp, value) ==
    LET n == New(Delete(hp, dev.strategy), IF value > 28 THEN "Comfort" ELSE "Eco")
    IN [device |-> [dev EXCEPT !.strategy = n.ptr], heap |-> n.heap,
        notes |-> <<>>, applied |-> <<>>]

\* variant: the threshold is taken as >= 28
FanOnSensorTriggeredFrom(dev, hp, value) ==
    LET r == SetState(dev, value >= 28)
    IN [device |-> r.device, heap |-> hp, notes |-> r.notes, applied |-> <<>>]

FanOnSensorTriggered(dev, hp, value) ==
    LET r == SetState(dev, value > 28)
    IN [device |-> r.device, heap |-> hp, notes |-> r.notes, applied |-> <<>>]

LightOnSensorTriggered(dev, hp, value) ==
    [device |-> dev, heap |-> hp, notes |-> <<>>, applied |-> <<>>]

\* the virtual call device->onSensorTriggered(value)
OnSensorTriggered(dev, hp, value) ==
    CASE dev.type = "Thermostat" -> ThermostatOnSensorTriggered(dev, hp, value)
      [] dev.type = "Fan" -> FanOnSensorTriggered(dev, hp, value)
      [] dev.type = "Light" -> LightOnSensorTriggered(dev, hp, value)

----------------------------------------------------------------------------
(* Sensor *)

Subscribe(subs, d) == Append(subs, d)

\* The record of one trigger call, carried through its loop as st:
\*   devices, heap   the registry and the live policy objects
\*   reactions       one entry per onSensorTriggered call made, in call order

\* variant: a device that has already reacted in this call is skipped
RECURSIVE TriggerFromOnce(_, _, _, _)
TriggerFromOnce(st, subs, k, value) ==
    IF k > Len(subs) THEN st
    ELSE IF \E j \in 1..Len(st.reactions) : st.reactions[j].device = subs[k]
    THEN TriggerFromOnce(st, subs, k + 1, value)
    ELSE LET d == subs[k]
             r == OnSensorTriggered(st.devices[d], st.heap, value)
         IN TriggerFromOnce([devices |-> [st.devices EXCEPT ![d] = r.device],
                             heap |-> r.heap,
                             reactions |-> Append(st.reactions,
                                 [subscriber |-> k, device |-> d, value |-> value,
                                  notes |-> r.notes, applied |-> r.applied])],
                            subs, k + 1, value)

\* variant: the subscribers are visited from the last to the first
RECURSIVE TriggerFromDown(_, _, _, _)
TriggerFromDown(st, subs, k, value) ==
    IF k > Len(subs) THEN st
    ELSE LET j == Len(subs) + 1 - k
             d == subs[j]
             r == OnSensorTriggered(st.devices[d], st.heap, value)
         IN TriggerFromDown([devices |-> [st.devices EXCEPT ![d] = r.device],
                             heap |-> r.heap,
                             reactions |-> Append(st.reactions,
                                 [subscriber |-> j, device |-> d, value |-> value,
                                  notes |-> r.notes, applied |-> r.applied])],
                            subs, k + 1, value)

\* the loop of Sensor::trigger from subscriber k on
RECURSIVE TriggerFrom(_, _, _, _)
TriggerFrom(st, subs, k, value) ==
    IF k > Len(subs) THEN st
    ELSE LET d == subs[k]
             r == OnSensorTriggered(st.devices[d], st.heap, value)
         IN TriggerFrom([devices |-> [st.devices EXCEPT ![d] = r.device],
                         heap |-> r.heap,
                         reactions |-> Append(st.reactions,
                             [subscriber |-> k, device |-> d, value |-> value,
                              notes |-> r.notes, applied |-> r.applied])],
                        subs, k + 1, value)

\* Sensor::trigger(newValue)
TriggerResult(subs, devs, hp, value) ==
    TriggerFrom([devices |-> devs, heap |-> hp, reactions |-> <<>>], subs, 1, value)

----------------------------------------------------------------------------
(* Registry lookup *)

\* variant: the loop returns nullptr as soon as the first device does not match
FindDeviceByNameFirstOnly(devs, name) ==
    IF Len(devs) > 0 /\ devs[1].name = name THEN 1 ELSE 0

\* variant: the loop keeps the last device that matches
FindDeviceByNameLast(devs, name) ==
    LET named == {k \in 1..Len(devs) : devs[k].name = name}
    IN IF named = {} THEN 0 ELSE CHOOSE k \in named : \A j \in named : j <= k

\* index of the first device called name, 0 for nullptr
FindDeviceByName(devs, name) ==
    LET S == {k \in 1..Len(devs) : devs[k].name = name}
    IN IF S = {} THEN 0 ELSE CHOOSE k \in S : \A j \in S : k <= j

----------------------------------------------------------------------------
(* Scheduler *)

\* variant: the completed member is initialised to true
ScheduledTaskDone(name, turnOn, strategy) ==
    [deviceName |-> name, turnOn |-> turnOn, strategy |-> strategy, completed |-> TRUE]

ScheduledTask(name, turnOn, strategy) ==
    [deviceName |-> name, turnOn |-> turnOn, strategy |-> strategy, completed |-> FALSE]

\* The record of one update call, carried through its loop as st:
\*   tasks, devices   the task queue and the registry
\*   asked    task indices whose shouldTrigger ran, in call order
\*   fired    task indices whose shouldTrigger returned true, in call order
\*   applied  the setState calls made, in call order, each with the
\*            Observer::update calls (notes) and the strategy->apply()
\*            calls (policy) it caused
\*   halted   the call trapped and never returned

\* variant: task.completed is not assigned
ApplyTaskNoMark(st, i, d, strategy) ==
    LET task == st.tasks[i]
        s == SetState(st.devices[d], task.turnOn)
    IN [st EXCEPT !.devices[d] = s.device,
                  !.applied = Append(@, [task |-> i, device |-> d,
                                         on |-> task.turnOn, notes |-> s.notes,
                                         policy |-> s.applied])]

\* variant: completed is assigned only when setState changed the state
ApplyTaskOnChange(st, i, d, strategy) ==
    LET task == st.tasks[i]
        s == SetState(st.devices[d], task.turnOn)
        st1 == [st EXCEPT !.devices[d] = s.device,
                          !.applied = Append(@, [task |-> i, device |-> d,
                                                 on |-> task.turnOn, notes |-> s.notes,
                                                 policy |-> s.applied])]
    IN IF st.devices[d].isOn # task.turnOn
       THEN [st1 EXCEPT !.tasks[i].completed = IsDone(strategy)]
       ELSE st1

\* the body of `if (device)`: setState, then completed = isDone()
ApplyTask(st, i, d, strategy) ==
    LET task == st.tasks[i]
        s == SetState(st.devices[d], task.turnOn)
    IN [st EXCEPT !.devices[d] = s.device,
                  !.applied = Append(@, [task |-> i, device |-> d,
                                         on |-> task.turnOn, notes |-> s.notes,
                                         policy |-> s.applied]),
                  !.tasks[i].completed = IsDone(strategy)]

\* variant: completed = isDone() is assigned after the `if (device)` block
ResolveAndApplyMarkAlways(st, i, strategy) ==
    LET d == FindDeviceByName(st.devices, st.tasks[i].deviceName) IN
    IF d = 0 THEN [st EXCEPT !.tasks[i].completed = IsDone(strategy)]
    ELSE ApplyTask(st, i, d, strategy)

\* variant: a policy whose device does not resolve is armed again
ResolveAndApplyRearm(st, i, strategy) ==
    LET d == FindDeviceByName(st.devices, st.tasks[i].deviceName) IN
    IF d = 0
    THEN IF strategy.kind = "Delayed"
         THEN [st EXCEPT !.tasks[i].strategy.triggered = FALSE]
         ELSE st
    ELSE ApplyTask(st, i, d, strategy)

\* findDeviceByName and the `if (device)` that follows it
ResolveAndApply(st, i, strategy) ==
    LET d == FindDeviceByName(st.devices, st.tasks[i].deviceName) IN
    IF d = 0 THEN st ELSE ApplyTask(st, i, d, strategy)

\* variant: the triggered flag is one static member shared by every
\* DelayedSchedule object
EvaluateTaskSharedFlag(st, i, currentTime, ub) ==
    LET r == ShouldTrigger(st.tasks[i].strategy, currentTime, ub)
        shared == [k \in 1..Len(st.tasks) |->
                      IF k = i THEN [st.tasks[k] EXCEPT !.strategy = r.strategy]
                      ELSE IF r.ret /\ st.tasks[k].strategy.kind = "Delayed"
                      THEN [st.tasks[k] EXCEPT !.strategy.triggered = TRUE]
                      ELSE st.tasks[k]]
        st1 == [st EXCEPT !.tasks = shared, !.asked = Append(@, i)]
    IN IF r.fault THEN [st1 EXCEPT !.halted = TRUE]
       ELSE IF ~r.ret THEN st1
       ELSE ResolveAndApply([st1 EXCEPT !.fired = Append(@, i)], i, r.strategy)

\* task.strategy->shouldTrigger(currentTime) and what follows when it is true
EvaluateTask(st, i, currentTime, ub) ==
    LET r == ShouldTrigger(st.tasks[i].strategy, currentTime, ub)
        st1 == [st EXCEPT !.tasks[i].strategy = r.strategy, !.asked = Append(@, i)]
    IN IF r.fault THEN [st1 EXCEPT !.halted = TRUE]
       ELSE IF ~r.ret THEN st1
       ELSE ResolveAndApply([st1 EXCEPT !.fired = Append(@, i)], i, r.strategy)

\* variant: the completed flag is not tested
UpdateTaskNoSkip(st, i, currentTime, ub) ==
    EvaluateTask(st, i, currentTime, ub)

\* one iteration of the loop of Scheduler::update, for the task at index i
UpdateTask(st, i, currentTime, ub) ==
    IF st.tasks[i].completed THEN st ELSE EvaluateTask(st, i, currentTime, ub)

\* variant: the loop is left at the first task whose device does not resolve
RECURSIVE UpdateFromBreak(_, _, _, _)
UpdateFromBreak(st, i, currentTime, ub) ==
    IF i > Len(st.tasks) \/ st.halted \/ Len(st.fired) > Len(st.applied) THEN st
    ELSE UpdateFromBreak(UpdateTask(st, i, currentTime, ub), i + 1, currentTime, ub)

\* variant: the loop runs from the last task to the first
RECURSIVE UpdateFromDown(_, _, _, _)
UpdateFromDown(st, i, currentTime, ub) ==
    LET j == Len(st.tasks) + 1 - i IN
    IF i > Len(st.tasks) \/ st.halted THEN st
    ELSE UpdateFromDown(UpdateTask(st, j, currentTime, ub), i + 1, currentTime, ub)

\* the loop of Scheduler::update from index i on; a trap ends the process
RECURSIVE UpdateFrom(_, _, _, _)
UpdateFrom(st, i, currentTime, ub) ==
    IF i > Len(st.tasks) \/ st.halted THEN st
    ELSE UpdateFrom(UpdateTask(st, i, currentTime, ub), i + 1, currentTime, ub)

\* Scheduler::update(currentTime) on task queue ts and registry devs
UpdateResult(ts, devs, currentTime, ub) ==
    UpdateFrom([tasks |-> ts, devices |-> devs, halted |-> FALSE,
                asked |-> <<>>, fired |-> <<>>, applied |-> <<>>],
               1, currentTime, ub)

\* some task's policy divides by zero when it is evaluated
DividesByZero(ts) ==
    \E i \in 1..Len(ts) :
        ~ts[i].completed /\ ts[i].strategy.kind = "Periodic" /\ ts[i].strategy.interval = 0

\* the outcomes an update call on ts can meet: one when nothing divides by zero
Outcomes(ts) == IF DividesByZero(ts) THEN DivZeroOutcomes ELSE {"true"}

----------------------------------------------------------------------------
(* Inputs *)

Strategies ==
    {OneTimeSchedule(1), PeriodicSchedule(2), PeriodicSchedule(0), DelayedSchedule(1)}

Registered == {devices[k].name : k \in 1..Len(devices)}

----------------------------------------------------------------------------
(* Operations *)

\* main's "add" command: createDevice, addDevice, attach(logger)
AddDevice(name) ==
    /\ ~halted
    /\ devices' = Append(devices, Attach(SmartDevice(name), Logger))
    /\ subscribers' = Subscribe(subscribers, Len(devices) + 1)
    /\ UNCHANGED <<tasks, halted, pol, calls, heap, policies, clock, logs>>

\* variant: the new task is inserted at the front of the queue
AddTaskFront(name, turnOn, strategy) ==
    /\ ~halted
    /\ Len(tasks) < MaxTasks
    /\ tasks' = <<ScheduledTask(name, turnOn, strategy)>> \o tasks
    /\ policies' = policies + 1
    /\ UNCHANGED <<devices, halted, pol, calls, subscribers, heap, clock, logs>>

\* the caller's new ...Schedule(...) and Scheduler::addTask
AddTask(name, turnOn, strategy) ==
    /\ ~halted
    /\ Len(tasks) < MaxTasks
    /\ tasks' = Append(tasks, ScheduledTask(name, turnOn, strategy))
    /\ policies' = policies + 1
    /\ UNCHANGED <<devices, halted, pol, calls, subscribers, heap, clock, logs>>

\* variant: only the completed tasks are deleted and removed
ClearTasksCompletedOnly ==
    /\ ~halted
    /\ tasks' = SelectSeq(tasks, LAMBDA task : ~task.completed)
    /\ policies' = policies - (Len(tasks) - Len(tasks'))
    /\ UNCHANGED <<devices, halted, pol, calls, subscribers, heap, clock, logs>>

\* Scheduler::clearTasks: one delete per task, then tasks.clear()
ClearTasks ==
    /\ ~halted
    /\ tasks' = <<>>
    /\ policies' = policies - Len(tasks)
    /\ UNCHANGED <<devices, halted, pol, calls, subscribers, heap, clock, logs>>

Update(currentTime, ub) ==
    /\ ~halted
    /\ LET r == UpdateResult(tasks, devices, currentTime, ub) IN
        /\ tasks' = r.tasks
        /\ devices' = r.devices
        /\ halted' = r.halted
    /\ UNCHANGED <<pol, calls, subscribers, heap, policies, clock, logs>>

\* DeviceController::toggleDevice
ToggleResult(devs, name) ==
    LET d == FindDeviceByName(devs, name) IN
    IF d = 0 THEN [devices |-> devs, found |-> FALSE, notes |-> <<>>, applied |-> <<>>]
    ELSE LET r == VirtualToggle(devs[d]) IN
         [devices |-> [devs EXCEPT ![d] = r.device], found |-> TRUE,
          notes |-> r.notes, applied |-> r.applied]

ToggleDevice(name) ==
    /\ ~halted
    /\ devices' = ToggleResult(devices, name).devices
    /\ UNCHANGED <<tasks, halted, pol, calls, subscribers, heap, policies, clock, logs>>

\* sensor.subscribe(devices[d])
SubscribeDevice(d) ==
    /\ ~halted
    /\ subscribers' = Subscribe(subscribers, d)
    /\ UNCHANGED <<devices, tasks, halted, pol, calls, heap, policies, clock, logs>>

\* sensor.trigger(value)
SensorTrigger(value) ==
    /\ ~halted
    /\ LET r == TriggerResult(subscribers, devices, heap, value) IN
        /\ devices' = r.devices
        /\ heap' = r.heap
    /\ UNCHANGED <<tasks, halted, pol, calls, subscribers, policies, clock, logs>>

Init ==
    /\ devices = <<>>
    /\ tasks = <<>>
    /\ halted = FALSE
    /\ clock = 0
    /\ logs = <<>>
    /\ pol = [kind |-> "none"]
    /\ calls = <<>>
    /\ subscribers = <<>>
    /\ heap = {}
    /\ policies = Len(tasks)

Next ==
    \/ \E name \in SpecDevices \ Registered : AddDevice(name)
    \/ \E name \in DeviceNames, turnOn \in BOOLEAN, strategy \in Strategies :
          AddTask(name, turnOn, strategy)
    \/ ClearTasks
    \/ \E currentTime \in Times, ub \in Outcomes(tasks) : Update(currentTime, ub)
    \/ \E name \in DeviceNames : ToggleDevice(name)

Spec == Init /\ [][Next]_vars

----------------------------------------------------------------------------
(* Periodic tasks scheduled before any device is registered: the queue is   *)
(* filled first, then both devices are added and subscribed to the sensor,  *)
(* toggled, given sensor readings, and update is called.                    *)

LateStrategies == {PeriodicSchedule(1), PeriodicSchedule(2), PeriodicSchedule(0)}

TaskInputs ==
    {ScheduledTask(name, turnOn, strategy) :
        name \in DeviceNames, turnOn \in BOOLEAN, strategy \in LateStrategies}

LateInit ==
    /\ devices = <<>>
    /\ tasks \in UNION {[1..n -> TaskInputs] : n \in 1..MaxTasks}
    /\ halted = FALSE
    /\ clock = 0
    /\ logs = <<>>
    /\ pol = [kind |-> "none"]
    /\ calls = <<>>
    /\ subscribers = <<>>
    /\ heap = {}
    /\ policies = Len(tasks)

LateNext ==
    \/ \E name \in DeviceNames \ Registered : AddDevice(name)
    \/ \E currentTime \in Times, ub \in Outcomes(tasks) : Update(currentTime, ub)
    \/ \E name \in DeviceNames : ToggleDevice(name)
    \/ \E value \in SensorValues : SensorTrigger(value)

LateSpec == LateInit /\ [][LateNext]_vars

----------------------------------------------------------------------------
(* Delayed tasks scheduled before any device is registered: as above, with  *)
(* a queue of tasks that each own a DelayedSchedule.                        *)

DelayedStarts == {1, 2}

DelayedInputs ==
    {ScheduledTask(name, turnOn, DelayedSchedule(time)) :
        name \in DeviceNames, turnOn \in BOOLEAN, time \in DelayedStarts}

DelayedInit ==
    /\ devices = <<>>
    /\ tasks \in UNION {[1..n -> DelayedInputs] : n \in 1..MaxTasks}
    /\ halted = FALSE
    /\ clock = 0
    /\ logs = <<>>
    /\ pol = [kind |-> "none"]
    /\ calls = <<>>
    /\ subscribers = <<>>
    /\ heap = {}
    /\ policies = Len(tasks)

DelayedSpec == DelayedInit /\ [][LateNext]_vars

----------------------------------------------------------------------------
(* Devices and their observers: a Fan and a Light, created and subscribed   *)
(* to the sensor, under attach, setState, toggle, sensor readings and a     *)
(* short queue of periodic tasks.                                           *)

RECURSIVE AttachedFrom(_, _)
AttachedFrom(devs, k) ==
    IF k > Len(devs) THEN 0 ELSE Len(devs[k].observers) + AttachedFrom(devs, k + 1)

\* the number of attach calls made so far
Attached(devs) == AttachedFrom(devs, 1)

\* devices[d]->attach(o)
AttachObserver(d, o) ==
    /\ ~halted
    /\ Attached(devices) < MaxAttach
    /\ devices' = [devices EXCEPT ![d] = Attach(@, o)]
    /\ UNCHANGED <<tasks, halted, pol, calls, subscribers, heap, policies, clock, logs>>

\* devices[d]->setState(on)
SetDeviceState(d, on) ==
    /\ ~halted
    /\ devices' = [devices EXCEPT ![d] = SetState(@, on).device]
    /\ UNCHANGED <<tasks, halted, pol, calls, subscribers, heap, policies, clock, logs>>

NotifyInit ==
    /\ devices = <<CreateDevice("F1"), CreateDevice("L1")>>
    /\ subscribers = <<1, 2>>
    /\ tasks = <<>>
    /\ halted = FALSE
    /\ clock = 0
    /\ logs = <<>>
    /\ pol = [kind |-> "none"]
    /\ calls = <<>>
    /\ heap = {}
    /\ policies = 0

NotifyNext ==
    \/ \E d \in 1..Len(devices), o \in Observers : AttachObserver(d, o)
    \/ \E d \in 1..Len(devices), on \in BOOLEAN : SetDeviceState(d, on)
    \/ \E name \in DeviceNames : ToggleDevice(name)
    \/ \E value \in SensorValues : SensorTrigger(value)
    \/ \E name \in DeviceNames, turnOn \in BOOLEAN :
          Len(tasks) < MaxQueued /\ AddTask(name, turnOn, PeriodicSchedule(1))
    \/ \E d \in 1..Len(devices) : Len(subscribers) < MaxSubscribers /\ SubscribeDevice(d)
    \/ \E currentTime \in Times, ub \in Outcomes(tasks) : Update(currentTime, ub)

NotifySpec == NotifyInit /\ [][NotifyNext]_vars

----------------------------------------------------------------------------
(* Two Thermostats, created and given the logger, under subscribe, sensor   *)
(* readings, setStrategy(new ...), toggle and applyTemperatureStrategy.     *)

\* t->setStrategy(new EcoMode()) or t->setStrategy(new ComfortMode())
AssignResult(devs, hp, d, mode) ==
    LET n == New(hp, mode)
    IN [devices |-> [devs EXCEPT ![d] = SetStrategy(@, n.ptr)], heap |-> n.heap]

AssignStrategy(d, mode) ==
    /\ ~halted
    /\ devices[d].type = "Thermostat"
    /\ Cardinality(heap) < MaxObjects
    /\ LET r == AssignResult(devices, heap, d, mode) IN
        /\ devices' = r.devices
        /\ heap' = r.heap
    /\ UNCHANGED <<tasks, halted, pol, calls, subscribers, policies, clock, logs>>

\* t->applyTemperatureStrategy()
ApplyPolicy(d) ==
    /\ ~halted
    /\ devices[d].type = "Thermostat"
    /\ devices' = [devices EXCEPT ![d] = ApplyTemperatureStrategy(@).device]
    /\ UNCHANGED <<tasks, halted, pol, calls, subscribers, heap, policies, clock, logs>>

HomeInit ==
    /\ devices = <<Attach(CreateDevice("T1"), Logger), Attach(CreateDevice("T2"), Logger)>>
    /\ subscribers = <<>>
    /\ heap = {}
    /\ tasks = <<>>
    /\ halted = FALSE
    /\ clock = 0
    /\ logs = <<>>
    /\ pol = [kind |-> "none"]
    /\ calls = <<>>
    /\ policies = 0

HomeNext ==
    \/ \E d \in 1..Len(devices) : d \notin Range(subscribers) /\ SubscribeDevice(d)
    \/ \E value \in SensorValues :
          /\ Cardinality(TriggerResult(subscribers, devices, heap, value).heap) <= MaxObjects
          /\ SensorTrigger(value)
    \/ \E d \in 1..Len(devices), mode \in Modes : AssignStrategy(d, mode)
    \/ \E name \in ThermostatNames : ToggleDevice(name)
    \/ \E d \in 1..Len(devices) : ApplyPolicy(d)

HomeSpec == HomeInit /\ [][HomeNext]_vars

----------------------------------------------------------------------------
(* The command loop of main.  Each command is a function of main's state m: *)
(*   devices, subscribers, heap, tasks, policies   as the variables         *)
(*   clock     currentTime                                                  *)
(*   logs      the entries DeviceLogger::update has stored                  *)
(*   halted    the process was terminated by a hardware trap                *)
(*   out       the error messages the command printed                       *)

DeviceTypes == {"Light", "Fan", "Thermostat"}

\* DeviceFactory::createDevice(type, name) for a type it knows
Factory(type, name) ==
    IF type = "Thermostat" THEN Thermostat(name)
    ELSE [name |-> name, type |-> type, isOn |-> FALSE, observers |-> <<>>]

\* the entries the logger stores for a sequence of Observer::update calls
Logged(notes) == SelectSeq(notes, LAMBDA n : n.observer = Logger)

\* the Observer::update calls of a sequence of setState calls or reactions
RECURSIVE NotesOf(_, _)
NotesOf(made, k) ==
    IF k > Len(made) THEN <<>> ELSE made[k].notes \o NotesOf(made, k + 1)

\* variant: a Thermostat is not given a policy when it is created
AddCommandNoPolicy(m, type, name) ==
    IF type \notin DeviceTypes
    THEN [m EXCEPT !.out = <<"[Error] Invalid device type.">>]
    ELSE [m EXCEPT !.devices = Append(@, Attach(Factory(type, name), Logger)),
                   !.subscribers = Subscribe(@, Len(m.devices) + 1)]

\* the "add" command; main's construction does the same for its three devices
AddCommand(m, type, name) ==
    IF type \notin DeviceTypes
    THEN [m EXCEPT !.out = <<"[Error] Invalid device type.">>]
    ELSE LET d == Len(m.devices) + 1
             added == [m EXCEPT !.devices = Append(@, Attach(Factory(type, name), Logger)),
                                !.subscribers = Subscribe(@, d)]
             a == AssignResult(added.devices, added.heap, d, "Eco")
         IN IF type = "Thermostat"
            THEN [added EXCEPT !.devices = a.devices, !.heap = a.heap]
            ELSE added

\* the "sensor" command
SensorCommand(m, value) ==
    LET r == TriggerResult(m.subscribers, m.devices, m.heap, value)
    IN [m EXCEPT !.devices = r.devices, !.heap = r.heap,
                 !.logs = @ \o Logged(NotesOf(r.reactions, 1))]

Keywords == {"one-time", "periodic", "delayed"}

\* variant: an unknown keyword is taken as one-time
ScheduleCommandDefault(m, deviceName, state, strategyType, timeValue) ==
    LET strategy ==
            CASE strategyType = "periodic" -> PeriodicSchedule(timeValue)
              [] strategyType = "delayed" -> DelayedSchedule(m.clock + timeValue)
              [] OTHER -> OneTimeSchedule(timeValue)
    IN [m EXCEPT !.tasks = Append(@, ScheduledTask(deviceName, state = "on", strategy)),
                 !.policies = @ + 1]

\* variant: the typed value is taken as the start time of a delayed task
ScheduleCommandAbsolute(m, deviceName, state, strategyType, timeValue) ==
    IF strategyType \notin Keywords
    THEN [m EXCEPT !.out = <<"[Error] Invalid strategy type.">>]
    ELSE LET strategy ==
                 CASE strategyType = "one-time" -> OneTimeSchedule(timeValue)
                   [] strategyType = "periodic" -> PeriodicSchedule(timeValue)
                   [] strategyType = "delayed" -> DelayedSchedule(timeValue)
         IN [m EXCEPT !.tasks = Append(@, ScheduledTask(deviceName, state = "on", strategy)),
                      !.policies = @ + 1]

\* the "schedule" command
ScheduleCommand(m, deviceName, state, strategyType, timeValue) ==
    IF strategyType \notin Keywords
    THEN [m EXCEPT !.out = <<"[Error] Invalid strategy type.">>]
    ELSE LET strategy ==
                 CASE strategyType = "one-time" -> OneTimeSchedule(timeValue)
                   [] strategyType = "periodic" -> PeriodicSchedule(timeValue)
                   [] strategyType = "delayed" -> DelayedSchedule(m.clock + timeValue)
         IN [m EXCEPT !.tasks = Append(@, ScheduledTask(deviceName, state = "on", strategy)),
                      !.policies = @ + 1]

\* variant: update is called before the counter is incremented
TickCommandUpdateFirst(m, ub) ==
    LET r == UpdateResult(m.tasks, m.devices, m.clock, ub)
    IN [m EXCEPT !.clock = m.clock + 1, !.tasks = r.tasks, !.devices = r.devices,
                 !.halted = r.halted,
                 !.logs = @ \o Logged(NotesOf(r.applied, 1))]

\* the "tick" command
TickCommand(m, ub) ==
    LET r == UpdateResult(m.tasks, m.devices, m.clock + 1, ub)
    IN [m EXCEPT !.clock = m.clock + 1, !.tasks = r.tasks, !.devices = r.devices,
                 !.halted = r.halted,
                 !.logs = @ \o Logged(NotesOf(r.applied, 1))]

\* variant: the logger's history is cleared as well
ResetCommandAll(m) ==
    [m EXCEPT !.clock = 0, !.tasks = <<>>, !.policies = @ - Len(m.tasks), !.logs = <<>>]

\* variant: the counter is set to 0 and the queue is kept
ResetCommandKeepTasks(m) == [m EXCEPT !.clock = 0]

\* the "reset" command
ResetCommand(m) ==
    [m EXCEPT !.clock = 0, !.tasks = <<>>, !.policies = @ - Len(m.tasks)]

\* variant: a name that matches nothing toggles the first device
ToggleCommandFirst(m, command) ==
    LET r == ToggleResult(m.devices, command)
        f == ToggleResult(m.devices, m.devices[1].name)
    IN IF r.found
       THEN [m EXCEPT !.devices = r.devices, !.logs = @ \o Logged(r.notes)]
       ELSE [m EXCEPT !.devices = f.devices, !.logs = @ \o Logged(f.notes),
                      !.out = <<"Device not found!">>]

\* any other command: controller.toggleDevice(command)
ToggleCommand(m, command) ==
    LET r == ToggleResult(m.devices, command)
    IN [m EXCEPT !.devices = r.devices, !.logs = @ \o Logged(r.notes),
                 !.out = IF r.found THEN <<>> ELSE <<"Device not found!">>]

\* main's state, before a command prints anything
Main ==
    [devices |-> devices, subscribers |-> subscribers, heap |-> heap, tasks |-> tasks,
     policies |-> policies, clock |-> clock, logs |-> logs, halted |-> halted,
     out |-> <<>>]

\* main's state after construction: a Light, a Fan and a Thermostat
MainStart ==
    LET empty == [devices |-> <<>>, subscribers |-> <<>>, heap |-> {}, tasks |-> <<>>,
                  policies |-> 0, clock |-> 0, logs |-> <<>>, halted |-> FALSE,
                  out |-> <<>>]
    IN AddCommand(AddCommand(AddCommand(empty, "Light", "L1"), "Fan", "F1"),
                  "Thermostat", "T1")

\* the command leaves main in state r
Assign(r) ==
    /\ devices' = r.devices
    /\ subscribers' = r.subscribers
    /\ heap' = r.heap
    /\ tasks' = r.tasks
    /\ policies' = r.policies
    /\ clock' = r.clock
    /\ logs' = r.logs
    /\ halted' = r.halted
    /\ UNCHANGED <<pol, calls>>

\* the command leaves main in state r, which is within the bounds of the model
Becomes(r) ==
    /\ Len(r.logs) <= MaxLogs
    /\ Len(r.tasks) <= MaxQueued
    /\ Len(r.devices) <= MaxDevices
    /\ r.clock <= MaxClock
    /\ Assign(r)

CmdAdd(type, name) == ~halted /\ Becomes(AddCommand(Main, type, name))

CmdSensor(value) == ~halted /\ Becomes(SensorCommand(Main, value))

CmdSchedule(deviceName, state, strategyType, timeValue) ==
    ~halted /\ Becomes(ScheduleCommand(Main, deviceName, state, strategyType, timeValue))

CmdTick(ub) == ~halted /\ Becomes(TickCommand(Main, ub))

CmdReset == ~halted /\ Becomes(ResetCommand(Main))

CmdToggle(command) == ~halted /\ Becomes(ToggleCommand(Main, command))

\* what the user types
TypedTypes == {"Light", "Oven"}
TypedNames == {"F1", "T1", "X1"}          \* no device is called X1
TypedStates == {"on", "off"}
TypedKeywords == {"one-time", "periodic", "weekly"}
TypedSeconds == {-1, 0, 1}

MainInit ==
    /\ devices = MainStart.devices
    /\ subscribers = MainStart.subscribers
    /\ heap = MainStart.heap
    /\ tasks = <<>>
    /\ policies = 0
    /\ clock = 0
    /\ logs = <<>>
    /\ halted = FALSE
    /\ pol = [kind |-> "none"]
    /\ calls = <<>>

MainNext ==
    \/ \E type \in TypedTypes : CmdAdd(type, "L2")
    \/ \E value \in SensorValues : CmdSensor(value)
    \/ \E state \in TypedStates, strategyType \in TypedKeywords, timeValue \in TypedSeconds :
          CmdSchedule("F1", state, strategyType, timeValue)
    \/ \E ub \in Outcomes(tasks) : CmdTick(ub)
    \/ CmdReset
    \/ \E command \in TypedNames : CmdToggle(command)

MainSpec == MainInit /\ [][MainNext]_vars

----------------------------------------------------------------------------
(* The command loop without reset and without sensor readings, with tasks  *)
(* of every kind scheduled for the Thermostat T1 and with a Fan that is     *)
(* added under the name T1 the Thermostat already has.                      *)

PlanNames == {"T1", "X1"}
PlanSeconds == {-1, 0, 1, 2}
PlanTimes == {0, 2}       \* the seconds values typed in PlanSpec

PlanNext ==
    \/ CmdAdd("Fan", "T1")
    \/ \E state \in TypedStates, strategyType \in Keywords, timeValue \in PlanTimes :
          CmdSchedule("T1", state, strategyType, timeValue)
    \/ \E ub \in Outcomes(tasks) : CmdTick(ub)
    \/ \E command \in PlanNames : CmdToggle(command)

PlanSpec == MainInit /\ [][PlanNext]_vars

----------------------------------------------------------------------------
(* Ticks that keep coming: the command loop with schedule and tick only,    *)
(* where the tick command is typed again and again until the counter is     *)
(* MaxClock.                                                                *)

\* the command leaves main in state r, the queue and the counter within the
\* bounds of the model
Proceeds(r) ==
    /\ Len(r.tasks) <= MaxQueued
    /\ r.clock <= MaxClock
    /\ Assign(r)

Plan(deviceName, state, strategyType, timeValue) ==
    ~halted /\ Proceeds(ScheduleCommand(Main, deviceName, state, strategyType, timeValue))

Advance == ~halted /\ \E ub \in Outcomes(tasks) : Proceeds(TickCommand(Main, ub))

\* a step of the tick command, seen on the counter alone: it is possible
\* until the process has ended or the counter is at MaxClock
Ticking == ~halted /\ clock < MaxClock /\ clock' = clock + 1

FairNext ==
    \/ \E deviceName \in PlanNames, state \in TypedStates,
          strategyType \in Keywords, timeValue \in PlanSeconds :
          Plan(deviceName, state, strategyType, timeValue)
    \/ Advance

\* the user keeps typing tick: the tick command is not postponed for ever
FairSpec == MainInit /\ [][FairNext]_vars /\ WF_clock(Ticking)

----------------------------------------------------------------------------
(* One policy instance under an arbitrary sequence of calls *)

Policies ==
    {OneTimeSchedule(time) : time \in 0..MaxParam}
    \cup {PeriodicSchedule(k) : k \in (-MaxParam)..MaxParam}
    \cup {DelayedSchedule(time) : time \in 0..MaxParam}

PolicyTimes == (-1)..MaxTime

\* strategy->shouldTrigger(currentTime) followed by strategy->isDone(), as the
\* scheduler calls them; calls records the time passed, the value returned and
\* what isDone() answers after the call
PolicyCall(currentTime, ub) ==
    /\ ~halted
    /\ Len(calls) < MaxCalls
    /\ LET r == ShouldTrigger(pol, currentTime, ub) IN
        /\ pol' = r.strategy
        /\ halted' = r.fault
        /\ calls' = IF r.fault THEN calls
                    ELSE Append(calls, [t |-> currentTime, ret |-> r.ret,
                                        done |-> IsDone(r.strategy)])
    /\ UNCHANGED <<devices, tasks, subscribers, heap, policies, clock, logs>>

PolicyInit ==
    /\ devices = <<>>
    /\ tasks = <<>>
    /\ halted = FALSE
    /\ clock = 0
    /\ logs = <<>>
    /\ pol \in Policies
    /\ calls = <<>>
    /\ subscribers = <<>>
    /\ heap = {}
    /\ policies = Len(tasks)

PolicyNext == \E currentTime \in PolicyTimes, ub \in DivZeroOutcomes : PolicyCall(currentTime, ub)

PolicySpec == PolicyInit /\ [][PolicyNext]_vars

----------------------------------------------------------------------------
(* Properties of the trigger policies, under PolicySpec *)

\* C2, as stated: for a OneTime(T) policy shouldTrigger returns true exactly
\* once, on the first call with t = T, and false on every other call,
\* repeated calls with t = T included.
C2_OneTimeFiresOnce ==
    pol.kind = "OneTime" =>
        \A k \in 1..Len(calls) :
            calls[k].ret <=> /\ calls[k].t = pol.triggerTime
                             /\ \A j \in 1..(k - 1) : calls[j].t # pol.triggerTime

\* C2, amended: for a OneTime(T) policy shouldTrigger returns true on every
\* call with t = T, repeated ones included, and false on every call with
\* t # T; isDone is true after every call.
C2_OneTimeFiresAtT ==
    pol.kind = "OneTime" =>
        \A k \in 1..Len(calls) :
            /\ calls[k].ret <=> calls[k].t = pol.triggerTime
            /\ calls[k].done

\* a OneTime(T) policy called twice with t = T, and once with another time
C2_Witness ==
    /\ pol.kind = "OneTime"
    /\ \E j, k, m \in 1..Len(calls) :
        /\ j < k
        /\ calls[j].t = pol.triggerTime /\ calls[j].ret
        /\ calls[k].t = pol.triggerTime /\ calls[k].ret
        /\ calls[m].t # pol.triggerTime /\ ~calls[m].ret

\* C4: for a Delayed(S) policy, whatever the order of the times passed,
\* shouldTrigger returns true on the first call with t >= S and false on
\* every call before and after it; isDone is false before that call and true
\* from it on.
C4_DelayedFiresOnFirstReached ==
    pol.kind = "Delayed" =>
        /\ \A k \in 1..Len(calls) :
            /\ calls[k].ret <=> /\ calls[k].t >= pol.startTime
                                 /\ \A j \in 1..(k - 1) : calls[j].t < pol.startTime
            /\ calls[k].done <=> \E j \in 1..k : calls[j].t >= pol.startTime
        /\ IsDone(pol) <=> \E j \in 1..Len(calls) : calls[j].t >= pol.startTime

\* a Delayed(S) policy called before S, then at or after S, then again with a
\* smaller time that is still at or after S
C4_Witness ==
    /\ pol.kind = "Delayed"
    /\ Len(calls) >= 3
    /\ calls[1].t < pol.startTime /\ ~calls[1].ret /\ ~calls[1].done
    /\ calls[2].t >= pol.startTime /\ calls[2].ret /\ calls[2].done
    /\ calls[3].t >= pol.startTime /\ calls[3].t < calls[2].t
    /\ ~calls[3].ret /\ calls[3].done

\* C5: for a Periodic(k) policy with k >= 1 and every t >= 0, shouldTrigger(t)
\* is true iff t mod k = 0, whatever calls came before; isDone is always
\* false.
C5_PeriodicFiresOnMultiples ==
    (pol.kind = "Periodic" /\ pol.interval >= 1) =>
        /\ \A k \in 1..Len(calls) :
            /\ calls[k].t >= 0 => (calls[k].ret <=> calls[k].t % pol.interval = 0)
            /\ ~calls[k].done
        /\ ~IsDone(pol)

\* a Periodic(k) policy, k >= 2, that fired at 0, fired again on a repeated
\* call with a positive multiple of k and did not fire in between
C5_Witness ==
    /\ pol.kind = "Periodic"
    /\ pol.interval >= 2
    /\ \E i, j, k \in 1..Len(calls) :
        /\ calls[i].t = 0 /\ calls[i].ret
        /\ calls[j].t > 0 /\ calls[j].t % pol.interval # 0 /\ ~calls[j].ret
        /\ i < k /\ calls[k].t = 0 /\ calls[k].ret

----------------------------------------------------------------------------
(* Properties of Scheduler::update, under Spec.  Each is stated of the      *)
(* update call that the Update action performs from the current state, for  *)
(* every time and every outcome of undefined behaviour it may be given.     *)

\* positions in r.applied of the setState calls made for task i
AppliedFor(r, i) == {k \in 1..Len(r.applied) : r.applied[k].task = i}

\* d is the first device of devs called name
FirstNamed(devs, name, d) ==
    /\ d \in 1..Len(devs)
    /\ devs[d].name = name
    /\ \A j \in 1..(d - 1) : devs[j].name # name

Resolves(devs, name) == \E d \in 1..Len(devs) : devs[d].name = name

\* the loop of call r got as far as the iteration after task i
Passed(r, i) == ~r.halted \/ (Len(r.asked) > 0 /\ r.asked[Len(r.asked)] > i)

\* exactly one setState call was made for task i in call r: the desired
\* state, on the first device of devs with the task's name
AppliedOnce(r, ts, devs, i) ==
    /\ Cardinality(AppliedFor(r, i)) = 1
    /\ \A k \in AppliedFor(r, i) :
        /\ r.applied[k].on = ts[i].turnOn
        /\ FirstNamed(devs, ts[i].deviceName, r.applied[k].device)

\* C1: once a task's completed flag is true, no update(t) asks its policy to
\* trigger or calls setState for it, and the flag stays true until
\* clearTasks empties the queue.
C1_CompletedNeverEvaluated ==
    [][\A i \in 1..Len(tasks) : tasks[i].completed =>
          /\ \A t \in Times, ub \in Outcomes(tasks) :
                LET r == UpdateResult(tasks, devices, t, ub) IN
                /\ i \notin Range(r.asked)
                /\ i \notin Range(r.fired)
                /\ AppliedFor(r, i) = {}
                /\ r.tasks[i] = tasks[i]
          /\ \/ tasks' = <<>>
             \/ i <= Len(tasks') /\ tasks'[i].completed]_vars

\* a completed task whose policy would fire at some t, on a registered device
\* that is not in the task's desired state
C1_Witness ==
    \E i \in 1..Len(tasks), t \in Times, d \in 1..Len(devices) :
        /\ tasks[i].completed
        /\ ShouldTrigger(tasks[i].strategy, t, "true").ret
        /\ FirstNamed(devices, tasks[i].deviceName, d)
        /\ devices[d].isOn # tasks[i].turnOn
        /\ UpdateResult(tasks, devices, t, "true").devices[d].isOn # tasks[i].turnOn

\* C3: for a OneTime(T) task whose device name resolves, consecutive
\* update(T) calls call setState(desired) for it exactly once, in the first
\* call, and the task is completed right after that first call.
C3_OneTimeAppliedOnce ==
    \A i \in 1..Len(tasks), ub \in Outcomes(tasks) :
        (/\ tasks[i].strategy.kind = "OneTime"
         /\ ~tasks[i].completed
         /\ Resolves(devices, tasks[i].deviceName)) =>
            LET T == tasks[i].strategy.triggerTime
                r1 == UpdateResult(tasks, devices, T, ub)
                r2 == UpdateResult(r1.tasks, r1.devices, T, ub)
                r3 == UpdateResult(r2.tasks, r2.devices, T, ub)
            IN Passed(r1, i) =>
                /\ AppliedOnce(r1, tasks, devices, i)
                /\ r1.tasks[i].completed
                /\ ~r1.halted => /\ AppliedFor(r2, i) = {}
                                 /\ r2.tasks[i].completed
                /\ (~r1.halted /\ ~r2.halted) => /\ AppliedFor(r3, i) = {}
                                                 /\ r3.tasks[i].completed

\* a pending OneTime(T) task on a registered device in the other state: the
\* first update(T) switches the device, the second leaves the task alone
C3_Witness ==
    \E i \in 1..Len(tasks), d \in 1..Len(devices) :
        /\ tasks[i].strategy.kind = "OneTime"
        /\ ~tasks[i].completed
        /\ FirstNamed(devices, tasks[i].deviceName, d)
        /\ devices[d].isOn # tasks[i].turnOn
        /\ LET T == tasks[i].strategy.triggerTime
               r1 == UpdateResult(tasks, devices, T, "true")
               r2 == UpdateResult(r1.tasks, r1.devices, T, "true")
           IN /\ Cardinality(AppliedFor(r1, i)) = 1
              /\ r1.devices[d].isOn = tasks[i].turnOn
              /\ r1.tasks[i].completed
              /\ i \notin Range(r2.asked)

\* C6: for a Periodic(k) task, k >= 1, on a resolvable device, update(t) with
\* t = 0, 1, 2, ... calls setState(desired) for it exactly at the multiples of
\* k, 0 included, and the task's completed flag is never set.
C6_PeriodicAppliedOnMultiples ==
    \A i \in 1..Len(tasks) :
        (tasks[i].strategy.kind = "Periodic" /\ tasks[i].strategy.interval >= 1) =>
            /\ ~tasks[i].completed
            /\ Resolves(devices, tasks[i].deviceName) =>
                \A t \in Times, ub \in Outcomes(tasks) :
                    LET r == UpdateResult(tasks, devices, t, ub) IN
                    Passed(r, i) =>
                        /\ t % tasks[i].strategy.interval = 0 =>
                              AppliedOnce(r, tasks, devices, i)
                        /\ t % tasks[i].strategy.interval # 0 => AppliedFor(r, i) = {}
                        /\ ~r.tasks[i].completed

\* a Periodic(k) task, k >= 2, on a registered device in the other state:
\* update(0) and update(k) switch the device, update(1) does not
C6_Witness ==
    \E i \in 1..Len(tasks), d \in 1..Len(devices) :
        /\ tasks[i].strategy.kind = "Periodic"
        /\ tasks[i].strategy.interval >= 2
        /\ tasks[i].strategy.interval \in Times
        /\ FirstNamed(devices, tasks[i].deviceName, d)
        /\ devices[d].isOn # tasks[i].turnOn
        /\ Len(tasks) = 1
        /\ UpdateResult(tasks, devices, 0, "true").devices[d].isOn = tasks[i].turnOn
        /\ UpdateResult(tasks, devices, 1, "true").devices[d].isOn # tasks[i].turnOn
        /\ UpdateResult(tasks, devices, tasks[i].strategy.interval, "true").devices[d].isOn
              = tasks[i].turnOn

\* C7: when a task's policy fires during update(t) but its device name
\* resolves to no registered device, no setState call and no notification is
\* made for that task, its completed flag stays false, and devices change
\* only through the setState calls made for other tasks.
C7_UnresolvedLeftUnmarked ==
    \A t \in Times, ub \in Outcomes(tasks) :
        LET r == UpdateResult(tasks, devices, t, ub) IN
        /\ \A i \in Range(r.fired) :
              ~Resolves(devices, tasks[i].deviceName) =>
                  /\ AppliedFor(r, i) = {}
                  /\ ~r.tasks[i].completed
        /\ Len(r.devices) = Len(devices)
        /\ \A d \in 1..Len(devices) :
              (\A k \in 1..Len(r.applied) : r.applied[k].device # d) =>
                  r.devices[d] = devices[d]
        /\ \A k \in 1..Len(r.applied) :
              Resolves(devices, tasks[r.applied[k].task].deviceName)

\* a Delayed task fires while its device name is not registered: nothing is
\* applied, the registry is as before and the task is not completed although
\* its policy is done
C7_Witness ==
    \E i \in 1..Len(tasks), t \in Times :
        LET r == UpdateResult(tasks, devices, t, "true") IN
        /\ tasks[i].strategy.kind = "Delayed"
        /\ ~Resolves(devices, tasks[i].deviceName)
        /\ i \in Range(r.fired)
        /\ IsDone(r.tasks[i].strategy)
        /\ ~r.tasks[i].completed
        /\ r.applied = <<>>
        /\ r.devices = devices
        /\ Len(devices) > 0

\* the largest element of a non-empty set of numbers
Last(S) == CHOOSE k \in S : \A j \in S : j <= k

\* C9: the tasks that fire for one device in one update(t) are applied in
\* task insertion order, so after the call the device is in the desired
\* state of the last-inserted one of them.
C9_InsertionOrderDecides ==
    \A t \in Times, ub \in Outcomes(tasks) :
        LET r == UpdateResult(tasks, devices, t, ub) IN
        /\ \A a, b \in 1..Len(r.applied) :
              a < b => r.applied[a].task < r.applied[b].task
        /\ \A d \in 1..Len(devices) :
              LET tasksOnD == {r.applied[k].task :
                                  k \in {j \in 1..Len(r.applied) : r.applied[j].device = d}}
              IN tasksOnD # {} => r.devices[d].isOn = tasks[Last(tasksOnD)].turnOn

\* two pending tasks with opposite desired states fire for the same device in
\* one call, and the device ends in the state the later task asks for
C9_Witness ==
    \E i, j \in 1..Len(tasks), d \in 1..Len(devices), t \in Times :
        LET r == UpdateResult(tasks, devices, t, "true") IN
        /\ i < j
        /\ tasks[i].turnOn # tasks[j].turnOn
        /\ devices[d].isOn = tasks[j].turnOn
        /\ Len(r.applied) = 2
        /\ r.applied[1].task = i /\ r.applied[1].device = d
        /\ r.applied[2].task = j /\ r.applied[2].device = d
        /\ r.devices[d].isOn = tasks[j].turnOn

\* C10: in an update(t) call in which a task fires on a device name that does
\* not resolve, every other task that was not completed is still asked, and
\* every one of them that fires on a resolvable device is applied.
C10_UnresolvedDoesNotStopLoop ==
    \A t \in Times, ub \in Outcomes(tasks) :
        LET r == UpdateResult(tasks, devices, t, ub) IN
        (/\ ~r.halted
         /\ \E i \in Range(r.fired) : ~Resolves(devices, tasks[i].deviceName)) =>
            \A j \in 1..Len(tasks) :
                ~tasks[j].completed =>
                    /\ j \in Range(r.asked)
                    /\ (/\ ShouldTrigger(tasks[j].strategy, t, ub).ret
                        /\ Resolves(devices, tasks[j].deviceName)) =>
                            AppliedOnce(r, tasks, devices, j)

\* the first task fires on an unregistered name and the second, on a
\* registered device in the other state, is applied in the same call
C10_Witness ==
    \E t \in Times, d \in 1..Len(devices) :
        LET r == UpdateResult(tasks, devices, t, "true") IN
        /\ Len(tasks) = 2
        /\ ~Resolves(devices, tasks[1].deviceName)
        /\ r.fired = <<1, 2>>
        /\ Len(r.applied) = 1
        /\ r.applied[1].task = 2 /\ r.applied[1].device = d
        /\ devices[d].isOn # tasks[2].turnOn
        /\ r.devices[d].isOn = tasks[2].turnOn

\* every update call on queue ts and registry devs asks no policy, calls
\* setState on no device and leaves every device as it is
Quiet(ts, devs) ==
    \A t \in Times, ub \in Outcomes(ts) :
        LET r == UpdateResult(ts, devs, t, ub) IN
        /\ r.asked = <<>>
        /\ r.applied = <<>>
        /\ r.devices = devs
        /\ ~r.halted

\* C11: after clearTasks, and for as long as the queue stays empty, update(t)
\* for every t calls setState on no device, changes no device's state and
\* notifies nobody.
C11_NothingAfterClear ==
    [][(ClearTasks \/ (tasks = <<>> /\ tasks' = <<>>)) => Quiet(tasks', devices')]_vars

\* a queue about to be emptied by clearTasks that holds a completed task and a
\* pending one, which some update(t) would apply to a device in the other
\* state; with the queue empty no update does anything
C11_Witness ==
    /\ ENABLED ClearTasks
    /\ \E i \in 1..Len(tasks), t \in Times, d \in 1..Len(devices) :
        LET r == UpdateResult(tasks, devices, t, "true") IN
        /\ tasks[i].completed
        /\ AppliedFor(r, 3 - i) # {}
        /\ Len(tasks) = 2
        /\ r.devices[d].isOn # devices[d].isOn
    /\ Quiet(<<>>, devices)

\* C12: the queue shrinks only through clearTasks, which empties it and
\* deletes one policy per task; update keeps the length and order of the queue
\* and the device name and desired state of every task, completed tasks
\* staying as they are; addTask grows the queue by exactly one entry, at the
\* end.
C12_QueueFrame ==
    [][/\ Len(tasks') < Len(tasks) => (ClearTasks /\ tasks' = <<>> /\ policies' = 0)
       /\ (\E t \in Times, ub \in Outcomes(tasks) : Update(t, ub)) =>
             /\ Len(tasks') = Len(tasks)
             /\ policies' = policies
             /\ \A i \in 1..Len(tasks) :
                   /\ tasks'[i].deviceName = tasks[i].deviceName
                   /\ tasks'[i].turnOn = tasks[i].turnOn
                   /\ tasks'[i].strategy.kind = tasks[i].strategy.kind
                   /\ tasks[i].completed => tasks'[i] = tasks[i]
       /\ (\E name \in DeviceNames, turnOn \in BOOLEAN, strategy \in Strategies :
              AddTask(name, turnOn, strategy)) =>
             /\ Len(tasks') = Len(tasks) + 1
             /\ SubSeq(tasks', 1, Len(tasks)) = tasks
             /\ policies' = Len(tasks')]_vars

\* a queue of two tasks, the first left in place by the update that completed
\* it and the second added after that
C12_Witness ==
    /\ Len(tasks) = 2
    /\ policies = 2
    /\ tasks[1].completed
    /\ ~tasks[2].completed
    /\ tasks[1].deviceName # tasks[2].deviceName

\* C13: addTask(name, desired, policy) appends a task with completed = false
\* holding the policy as it was passed, whether or not name is registered, and
\* changes no device.
C13_AddTaskOnlyAppends ==
    [][\A name \in DeviceNames, turnOn \in BOOLEAN, strategy \in Strategies :
          AddTask(name, turnOn, strategy) =>
              /\ tasks'[Len(tasks')] =
                    [deviceName |-> name, turnOn |-> turnOn,
                     strategy |-> strategy, completed |-> FALSE]
              /\ devices' = devices
              /\ halted' = halted]_vars

\* the last task of the queue is pending on a name that is not registered,
\* with a policy that would fire at once had it been evaluated, while a
\* registered device exists
C13_Witness ==
    /\ Len(devices) > 0
    /\ Len(tasks) > 0
    /\ LET task == tasks[Len(tasks)] IN
        /\ ~task.completed
        /\ ~Resolves(devices, task.deviceName)
        /\ task.strategy = DelayedSchedule(1)

----------------------------------------------------------------------------
(* Under LateSpec: every task was added while its device name was not       *)
(* registered.                                                              *)

\* C8: a Periodic(k) task added while its device name is not registered is
\* asked at every update(t) and fires at every t with t mod k = 0; while the
\* name is not registered nothing is applied and the task is left as it was,
\* and in every state after a device with that name is registered every such
\* t applies setState(desired) to that device; the task is never completed.
C8_PeriodicRetriedUntilResolved ==
    \A i \in 1..Len(tasks) :
        (tasks[i].strategy.kind = "Periodic" /\ tasks[i].strategy.interval >= 1) =>
            LET name == tasks[i].deviceName
                k == tasks[i].strategy.interval
            IN
            /\ ~tasks[i].completed
            /\ \A t \in Times, ub \in Outcomes(tasks) :
                  LET r == UpdateResult(tasks, devices, t, ub) IN
                  Passed(r, i) =>
                      /\ i \in Range(r.asked)
                      /\ i \in Range(r.fired) <=> t % k = 0
                      /\ r.tasks[i] = tasks[i]
                      /\ ~Resolves(devices, name) => AppliedFor(r, i) = {}
                      /\ Resolves(devices, name) =>
                            IF t % k = 0 THEN AppliedOnce(r, tasks, devices, i)
                            ELSE AppliedFor(r, i) = {}

\* a Periodic(k) task, k >= 2, whose device was registered after it was
\* added and is in the other state: update(0) and update(k) switch the
\* device, update(1) does not, and the task stays pending
C8_Witness ==
    \E i \in 1..Len(tasks), d \in 1..Len(devices) :
        LET k == tasks[i].strategy.interval
            r0 == UpdateResult(tasks, devices, 0, "true")
            r1 == UpdateResult(tasks, devices, 1, "true")
            rk == UpdateResult(tasks, devices, k, "true")
        IN
        /\ tasks[i].strategy.kind = "Periodic"
        /\ k >= 2 /\ k \in Times
        /\ d = 2
        /\ FirstNamed(devices, tasks[i].deviceName, d)
        /\ devices[d].isOn # tasks[i].turnOn
        /\ AppliedFor(r0, i) # {} /\ r0.devices[d].isOn = tasks[i].turnOn
        /\ AppliedFor(r1, i) = {}
        /\ AppliedFor(rk, i) # {} /\ rk.devices[d].isOn = tasks[i].turnOn
        /\ ~rk.tasks[i].completed

----------------------------------------------------------------------------
(* Properties of devices and their observers, under NotifySpec *)

\* notes is one Observer::update call per attachment of dev, in attach order,
\* each reading the state dev has now
NotifiedAll(dev, notes) ==
    /\ Len(notes) = Len(dev.observers)
    /\ \A k \in 1..Len(notes) :
        /\ notes[k].observer = dev.observers[k]
        /\ notes[k].name = dev.name
        /\ notes[k].isOn = dev.isOn

\* C14: toggle() flips the state and notifies on every call, consecutive
\* calls included; setState(x) changes the state and notifies only when x
\* differs from the current state, so of two consecutive setState(x) calls at
\* most the first notifies and the second changes nothing.
C14_ToggleAlwaysSetStateOnChange ==
    \A d \in 1..Len(devices) :
        LET dev == devices[d]
            t1 == Toggle(dev)
            t2 == Toggle(t1.device)
        IN
        /\ t1.device.isOn = ~dev.isOn /\ NotifiedAll(t1.device, t1.notes)
        /\ t2.device.isOn = dev.isOn /\ NotifiedAll(t2.device, t2.notes)
        /\ t1.device.observers = dev.observers
        /\ \A x \in BOOLEAN :
            LET s1 == SetState(dev, x)
                s2 == SetState(s1.device, x)
            IN
            /\ s1.device.isOn = x
            /\ s1.device.observers = dev.observers
            /\ IF x # dev.isOn THEN NotifiedAll(s1.device, s1.notes) ELSE s1.notes = <<>>
            /\ s2.device = s1.device
            /\ s2.notes = <<>>

\* a device that is ON with two attachments: setState(false) notifies both,
\* setState(true) notifies nobody, toggle notifies both
C14_Witness ==
    \E d \in 1..Len(devices) :
        /\ devices[d].isOn
        /\ Len(devices[d].observers) = 2
        /\ Len(SetState(devices[d], FALSE).notes) = 2
        /\ SetState(devices[d], TRUE).notes = <<>>
        /\ Len(Toggle(devices[d]).notes) = 2

\* the state of device d just before the setState call at position k of the
\* update call r made from registry devs
StateBefore(r, devs, d, k) ==
    LET earlier == {j \in 1..(k - 1) : r.applied[j].device = d}
    IN IF earlier = {} THEN devs[d].isOn ELSE r.applied[Last(earlier)].on

\* C15: every change of a device's isOn, by toggle, by setState, by a
\* scheduler application or by a Fan's sensor reaction, is followed in the
\* same call by exactly one notification per attachment, in attach order (an
\* observer attached twice is notified twice), each reading the new state.
C15_ChangeNotifiesEveryAttachment ==
    /\ \A name \in DeviceNames :
          LET r == ToggleResult(devices, name) IN
          \A d \in 1..Len(devices) :
              r.devices[d].isOn # devices[d].isOn => NotifiedAll(r.devices[d], r.notes)
    /\ \A d \in 1..Len(devices), on \in BOOLEAN :
          LET r == SetState(devices[d], on) IN
          r.device.isOn # devices[d].isOn => NotifiedAll(r.device, r.notes)
    /\ \A t \in Times, ub \in Outcomes(tasks) :
          LET r == UpdateResult(tasks, devices, t, ub) IN
          /\ \A k \in 1..Len(r.applied) :
                LET d == r.applied[k].device IN
                r.applied[k].on # StateBefore(r, devices, d, k) =>
                    NotifiedAll([devices[d] EXCEPT !.isOn = r.applied[k].on],
                                r.applied[k].notes)
          /\ \A d \in 1..Len(devices) :
                r.devices[d].isOn # devices[d].isOn =>
                    \E k \in 1..Len(r.applied) :
                        /\ r.applied[k].device = d
                        /\ r.applied[k].on # StateBefore(r, devices, d, k)
    /\ \A value \in SensorValues :
          LET r == TriggerResult(subscribers, devices, heap, value) IN
          \A d \in 1..Len(devices) :
              r.devices[d].isOn # devices[d].isOn =>
                  \E k \in 1..Len(r.reactions) :
                      /\ r.reactions[k].device = d
                      /\ NotifiedAll(r.devices[d], r.reactions[k].notes)
                      /\ \A j \in 1..Len(r.reactions) :
                            (j # k /\ r.reactions[j].device = d) => r.reactions[j].notes = <<>>

\* the Fan is OFF with the same observer attached twice and a task queued
\* that turns it ON: the sensor reading 29, the update, toggle and setState
\* each notify that observer twice with the state ON
C15_Witness ==
    \E d \in 1..Len(devices), t \in Times :
        LET dev == devices[d]
            u == UpdateResult(tasks, devices, t, "true")
            s == TriggerResult(subscribers, devices, heap, 29)
            g == ToggleResult(devices, dev.name)
        IN
        /\ dev.type = "Fan"
        /\ ~dev.isOn
        /\ Len(dev.observers) = 2
        /\ dev.observers[1] = dev.observers[2]
        /\ Len(u.applied) = 1 /\ u.devices[d].isOn /\ Len(u.applied[1].notes) = 2
        /\ s.devices[d].isOn
        /\ \E k \in 1..Len(s.reactions) :
              /\ Len(s.reactions[k].notes) = 2
              /\ s.reactions[k].notes[2].isOn
        /\ g.devices[d].isOn /\ Len(g.notes) = 2
        /\ Len(SetState(dev, TRUE).notes) = 2

----------------------------------------------------------------------------
(* Properties of the Thermostat and its temperature policies, under HomeSpec *)

Thermostats == {d \in 1..Len(devices) : devices[d].type = "Thermostat"}

\* C16: a Thermostat toggle() from OFF to ON applies the held policy exactly
\* once, with the device already ON and every observer already notified; a
\* toggle() from ON to OFF applies no policy.
C16_ToggleIntoOnAppliesPolicy ==
    \A d \in Thermostats :
        LET dev == devices[d]
            r == ToggleResult(devices, dev.name)
        IN
        /\ r.found
        /\ r.devices[d].isOn = ~dev.isOn
        /\ r.devices[d].strategy = dev.strategy
        /\ NotifiedAll(r.devices[d], r.notes)
        /\ (~dev.isOn /\ dev.strategy # 0) =>
              /\ Len(r.applied) = 1
              /\ r.applied[1].ptr = dev.strategy
              /\ dev.strategy \in Ids(heap)
              /\ r.applied[1].isOn
              /\ r.applied[1].notified = Len(dev.observers)
        /\ dev.isOn => r.applied = <<>>

\* one Thermostat is OFF and holds a policy, which its toggle applies after
\* notifying the logger; the other is ON and holds a policy, which its toggle
\* does not apply
C16_Witness ==
    \E d, e \in Thermostats :
        LET g == ToggleResult(devices, devices[d].name)
            h == ToggleResult(devices, devices[e].name)
        IN
        /\ ~devices[d].isOn /\ devices[d].strategy # 0
        /\ Len(g.applied) = 1 /\ g.applied[1].notified = 1 /\ g.devices[d].isOn
        /\ devices[e].isOn /\ devices[e].strategy # 0
        /\ h.applied = <<>> /\ ~h.devices[e].isOn /\ Len(h.notes) = 1

\* the toggle() that brings dev into ON: the next one if dev is OFF, the one
\* after the next if dev is ON
IntoOn(dev) ==
    IF dev.isOn THEN VirtualToggle(VirtualToggle(dev).device) ELSE VirtualToggle(dev)

\* C17: whatever was held before, after a reading v is delivered to a
\* subscribed Thermostat the policy applied by its next toggle() into ON is
\* Comfort if v > 28 and Eco otherwise, 28 included.
C17_LatestReadingDecidesPolicy ==
    \A value \in SensorValues :
        LET r == TriggerResult(subscribers, devices, heap, value) IN
        \A d \in Thermostats :
            d \in Range(subscribers) =>
                LET g == IntoOn(r.devices[d]) IN
                /\ Len(g.applied) = 1
                /\ g.applied[1].ptr \in Ids(r.heap)
                /\ ModeAt(r.heap, g.applied[1].ptr) =
                      IF value > 28 THEN "Comfort" ELSE "Eco"

\* a subscribed Thermostat holds Comfort: after the reading 28 its toggle
\* into ON applies Eco, and after the reading 29 it applies Comfort
C17_Witness ==
    \E d \in Thermostats :
        LET r28 == TriggerResult(subscribers, devices, heap, 28)
            r29 == TriggerResult(subscribers, devices, heap, 29)
        IN
        /\ d \in Range(subscribers)
        /\ devices[d].strategy # 0
        /\ ModeAt(heap, devices[d].strategy) = "Comfort"
        /\ ModeAt(r28.heap, IntoOn(r28.devices[d]).applied[1].ptr) = "Eco"
        /\ ModeAt(r29.heap, IntoOn(r29.devices[d]).applied[1].ptr) = "Comfort"

\* C18: a reading delivered to a Thermostat, ON or OFF, changes only which
\* policy it holds: its state and observers are as before, nobody is notified
\* and no policy is applied by the reaction.
C18_ReadingOnlySwitchesPolicy ==
    \A value \in SensorValues :
        LET r == TriggerResult(subscribers, devices, heap, value) IN
        /\ Len(r.devices) = Len(devices)
        /\ \A d \in Thermostats :
              /\ r.devices[d].isOn = devices[d].isOn
              /\ r.devices[d].observers = devices[d].observers
              /\ r.devices[d].name = devices[d].name
              /\ d \notin Range(subscribers) => r.devices[d] = devices[d]
        /\ \A k \in 1..Len(r.reactions) :
              r.reactions[k].device \in Thermostats =>
                  /\ r.reactions[k].notes = <<>>
                  /\ r.reactions[k].applied = <<>>

\* two subscribed Thermostats, one ON and one OFF, both holding Eco: the
\* reading 29 switches both to Comfort and leaves one ON and the other OFF
C18_Witness ==
    \E d, e \in Thermostats :
        LET r == TriggerResult(subscribers, devices, heap, 29) IN
        /\ {d, e} \subseteq Range(subscribers)
        /\ devices[d].isOn /\ ~devices[e].isOn
        /\ devices[d].strategy # 0 /\ ModeAt(heap, devices[d].strategy) = "Eco"
        /\ devices[e].strategy # 0 /\ ModeAt(heap, devices[e].strategy) = "Eco"
        /\ ModeAt(r.heap, r.devices[d].strategy) = "Comfort"
        /\ ModeAt(r.heap, r.devices[e].strategy) = "Comfort"
        /\ r.devices[d].isOn /\ ~r.devices[e].isOn
        /\ Len(r.reactions) = 2

\* the policy objects held by thermostats
Held == {devices[d].strategy : d \in {e \in Thermostats : devices[e].strategy # 0}}

\* C19, as stated: every replacement of a Thermostat's policy, by a sensor
\* reading or by setStrategy, releases the policy held before, so the live
\* policy objects are exactly the ones thermostats hold.
C19_LiveAreHeld ==
    Ids(heap) = Held

\* C20: applyTemperatureStrategy() applies the held policy exactly once if one
\* is held and does nothing if none was assigned; either way the device is
\* as before and nobody is notified.
C20_ApplyOnlyApplies ==
    \A d \in Thermostats :
        LET dev == devices[d]
            r == ApplyTemperatureStrategy(dev)
        IN
        /\ r.device = dev
        /\ r.notes = <<>>
        /\ dev.strategy = 0 => r.applied = <<>>
        /\ dev.strategy # 0 =>
              /\ Len(r.applied) = 1
              /\ r.applied[1].ptr = dev.strategy
              /\ dev.strategy \in Ids(heap)

\* one Thermostat was never given a policy and the other, ON with the logger
\* attached, holds one: the call applies nothing on the first and exactly the
\* held policy on the second
C20_Witness ==
    \E d, e \in Thermostats :
        /\ devices[d].strategy = 0
        /\ ApplyTemperatureStrategy(devices[d]).applied = <<>>
        /\ devices[e].strategy # 0
        /\ devices[e].isOn
        /\ Len(devices[e].observers) = 1
        /\ Len(ApplyTemperatureStrategy(devices[e]).applied) = 1

----------------------------------------------------------------------------
(* Properties of the sensor, under NotifySpec *)

Fans == {d \in 1..Len(devices) : devices[d].type = "Fan"}

\* C21: after a Fan reacts to the reading v it is ON iff v > 28, 28 giving
\* OFF; every attachment gets exactly one notification if the state changed
\* and nobody is notified if it did not.
C21_FanFollowsThreshold ==
    \A d \in Fans, value \in SensorValues :
        LET dev == devices[d]
            r == OnSensorTriggered(dev, heap, value)
        IN
        /\ r.device.isOn <=> value > 28
        /\ r.device.observers = dev.observers
        /\ r.heap = heap
        /\ IF r.device.isOn # dev.isOn THEN NotifiedAll(r.device, r.notes)
           ELSE r.notes = <<>>

\* a Fan that is ON with an observer attached: the reading 28 turns it OFF
\* with one notification, the reading 29 leaves it ON with none, and the
\* reading 29 after the 28 turns it ON again with one
C21_Witness ==
    \E d \in Fans :
        LET r28 == OnSensorTriggered(devices[d], heap, 28)
            r29 == OnSensorTriggered(devices[d], heap, 29)
            back == OnSensorTriggered(r28.device, heap, 29)
        IN
        /\ devices[d].isOn
        /\ Len(devices[d].observers) = 1
        /\ ~r28.device.isOn /\ Len(r28.notes) = 1 /\ ~r28.notes[1].isOn
        /\ r29.device.isOn /\ r29.notes = <<>>
        /\ back.device.isOn /\ Len(back.notes) = 1

\* the registry after the reactions of subscribers 1..k to value, one after
\* the other
RECURSIVE ReactedUpTo(_, _, _, _, _)
ReactedUpTo(subs, devs, hp, value, k) ==
    IF k = 0 THEN devs
    ELSE LET before == ReactedUpTo(subs, devs, hp, value, k - 1)
         IN [before EXCEPT ![subs[k]] = OnSensorTriggered(@, hp, value).device]

\* C22: trigger(v) calls onSensorTriggered(v) once per entry of the
\* subscriber list, in subscription order, a device subscribed twice reacting
\* twice, and when it returns every one of these reactions has taken effect.
C22_TriggerVisitsEveryEntry ==
    \A value \in SensorValues :
        LET r == TriggerResult(subscribers, devices, heap, value) IN
        /\ Len(r.reactions) = Len(subscribers)
        /\ \A k \in 1..Len(subscribers) :
              /\ r.reactions[k].subscriber = k
              /\ r.reactions[k].device = subscribers[k]
              /\ r.reactions[k].value = value
              /\ r.reactions[k].notes =
                    OnSensorTriggered(ReactedUpTo(subscribers, devices, heap, value, k - 1)
                                          [subscribers[k]], heap, value).notes
        /\ r.devices = ReactedUpTo(subscribers, devices, heap, value, Len(subscribers))

\* a Fan that is OFF with an observer attached is on the subscriber list
\* twice, the Light in between: the reading 29 makes three reactions, the
\* Fan's first one switching it ON and its second one finding it ON
C22_Witness ==
    \E d \in Fans :
        LET r == TriggerResult(subscribers, devices, heap, 29) IN
        /\ Len(subscribers) = 3
        /\ subscribers[1] = d /\ subscribers[3] = d /\ subscribers[2] # d
        /\ ~devices[d].isOn
        /\ Len(devices[d].observers) > 0
        /\ Len(r.reactions) = 3
        /\ r.reactions[1].notes # <<>>
        /\ r.reactions[3].notes = <<>>
        /\ r.devices[d].isOn

----------------------------------------------------------------------------
(* Order and determinism, under LateSpec: two devices share the logger and  *)
(* the sensor, and the queue may hold a task that divides by zero.          *)

\* the Observer::update calls received by observer o during a call, in order,
\* each with the position in made (the setState calls of an update, the
\* reactions of a trigger) of the call that caused it
RECURSIVE Received(_, _, _)
Received(made, o, k) ==
    IF k > Len(made) THEN <<>>
    ELSE LET mine == SelectSeq(made[k].notes, LAMBDA n : n.observer = o)
         IN [j \in 1..Len(mine) |-> [cause |-> k, note |-> mine[j]]]
            \o Received(made, o, k + 1)

----------------------------------------------------------------------------
(* Properties of the command loop, under MainSpec *)

\* C24: toggling by a name that matches no registered device is reported and
\* not fatal: no device changes, the logger hears nothing, and the task queue
\* and the time counter are as before.
C24_UnknownNameOnlyReported ==
    ~halted =>
        \A command \in TypedNames :
            ~Resolves(devices, command) =>
                LET r == ToggleCommand(Main, command) IN
                /\ r.out # <<>>
                /\ ~r.halted
                /\ r.devices = devices
                /\ r.logs = logs
                /\ r.tasks = tasks
                /\ r.clock = clock
                /\ r = [Main EXCEPT !.out = r.out]

\* the Fan is ON, the logger has an entry, a task is queued and the counter
\* is past 0 when X1, which names no device, is typed
C24_Witness ==
    /\ ~halted
    /\ ~Resolves(devices, "X1")
    /\ \E d \in 1..Len(devices) : devices[d].isOn
    /\ devices[1].name # "X1" /\ ~devices[1].isOn
    /\ logs # <<>>
    /\ tasks # <<>>
    /\ clock > 0
    /\ ToggleCommand(Main, "X1").out # <<>>

BadKeywords == {"weekly", "", "One-Time"}

\* C25: a schedule command whose strategy keyword is none of one-time,
\* periodic, delayed is reported as an input error and changes nothing: no
\* task is appended and the queue, the devices and the time counter are as
\* before.
C25_UnknownKeywordOnlyReported ==
    ~halted =>
        \A deviceName \in TypedNames, state \in TypedStates,
           strategyType \in BadKeywords, timeValue \in TypedSeconds :
            LET r == ScheduleCommand(Main, deviceName, state, strategyType, timeValue) IN
            /\ r.out # <<>>
            /\ r.tasks = tasks
            /\ r.devices = devices
            /\ r.clock = clock
            /\ r = [Main EXCEPT !.out = r.out]

\* a task is queued, the Fan is ON and the counter is past 0 when a schedule
\* command with the keyword weekly is typed; with the keyword one-time the
\* same command appends a task
C25_Witness ==
    /\ ~halted
    /\ Len(tasks) = 1
    /\ clock > 0
    /\ \E d \in 1..Len(devices) : devices[d].isOn
    /\ ScheduleCommand(Main, "F1", "on", "weekly", 1).tasks = tasks
    /\ Len(ScheduleCommand(Main, "F1", "on", "one-time", 1).tasks) = 2

\* C26: a tick increments the time counter by exactly 1 and calls update once
\* with the incremented value; no other command advances the counter, reset
\* puts it back to 0, and the counter is never negative, so a tick never
\* issues update(0).
C26_TickAdvancesByOne ==
    [][/\ clock >= 0
       /\ \A ub \in Outcomes(tasks) :
             CmdTick(ub) =>
                 LET r == UpdateResult(tasks, devices, clock + 1, ub) IN
                 /\ clock' = clock + 1
                 /\ clock' # 0
                 /\ tasks' = r.tasks
                 /\ devices' = r.devices
                 /\ halted' = r.halted
       /\ clock' # clock =>
             \/ \E ub \in Outcomes(tasks) : CmdTick(ub)
             \/ CmdReset /\ clock' = 0]_vars

\* the counter is 2 and the queue holds a completed one-time task with
\* trigger time 1 or 2: it fired at the update a tick issued
C26_Witness ==
    /\ clock = 2
    /\ Len(tasks) = 1
    /\ tasks[1].strategy.kind = "OneTime"
    /\ tasks[1].strategy.triggerTime = 1
    /\ tasks[1].completed
    /\ logs # <<>>

\* C27: reset empties the task queue and sets the time counter to 0; the
\* devices with their states, policies and observers, the subscriber list,
\* the policy objects and the logger's history are as before.
C27_ResetKeepsTheHome ==
    ~halted =>
        LET r == ResetCommand(Main) IN
        /\ r.tasks = <<>>
        /\ r.clock = 0
        /\ r.policies = 0
        /\ r.devices = devices
        /\ r.subscribers = subscribers
        /\ r.heap = heap
        /\ r.logs = logs
        /\ ~r.halted
        /\ r.out = <<>>

\* a task is queued, the counter is past 0, the logger has entries, the Fan
\* is ON and the Thermostat holds Comfort when reset is typed
C27_Witness ==
    /\ ~halted
    /\ tasks # <<>>
    /\ clock > 0
    /\ Len(logs) = MaxLogs
    /\ \E d \in 1..Len(devices) : devices[d].type = "Fan" /\ devices[d].isOn
    /\ \E d \in 1..Len(devices) :
          /\ devices[d].type = "Thermostat"
          /\ ModeAt(heap, devices[d].strategy) = "Comfort"
    /\ ResetCommand(Main).tasks = <<>>

\* C29, as stated: no sequence of toggle, sensor, schedule, tick and reset
\* commands terminates the process, and the update of every tick returns,
\* whatever seconds value the tasks were scheduled with.
C29_NeverFaults ==
    /\ ~halted
    /\ \A ub \in Outcomes(tasks) : ~TickCommand(Main, ub).halted

\* the logger's entries for the device called name, oldest first
LogOf(history, name) == SelectSeq(history, LAMBDA n : n.name = name)

\* the number of setState calls of update record r that changed device d
FlipsIn(r, devs, d) ==
    Cardinality({k \in 1..Len(r.applied) :
                    r.applied[k].device = d /\ r.applied[k].on # StateBefore(r, devs, d, k)})

\* the devices that share their name with another device: the logger's
\* entries, which name the device, cannot be told apart for them
Twins ==
    {d \in 1..Len(devices) :
        \E e \in 1..Len(devices) : e # d /\ devices[e].name = devices[d].name}

\* C32: for every device of main, which has had the logger attached since
\* it was created, and whose name no other device has, the logger's
\* entries for it record alternately ON and
\* OFF, starting with ON, so that each entry is one flip from the initial
\* OFF; the device is ON exactly when their number is odd and the last entry
\* records the current state.  Each command adds as many entries for the
\* device as it flips its state: one per toggle, one per state-changing
\* setState of a tick, one per state-changing sensor reaction.
C32_LogMirrorsFlips ==
    ~halted =>
        \A d \in 1..Len(devices) \ Twins :
            LET name == devices[d].name
                mine == LogOf(logs, name)
                grown(m) == Len(LogOf(m.logs, name)) - Len(mine)
                toggled == ToggleCommand(Main, name)
            IN
            /\ devices[d].observers = <<Logger>>
            /\ \A k \in 1..Len(mine) : mine[k].isOn <=> (k % 2 = 1)
            /\ devices[d].isOn <=> (Len(mine) % 2 = 1)
            /\ mine # <<>> => mine[Len(mine)].isOn = devices[d].isOn
            /\ toggled.devices[d].isOn # devices[d].isOn /\ grown(toggled) = 1
            /\ \A value \in SensorValues :
                  LET sensed == SensorCommand(Main, value) IN
                  grown(sensed) = IF sensed.devices[d].isOn # devices[d].isOn THEN 1 ELSE 0
            /\ \A ub \in Outcomes(tasks) :
                  grown(TickCommand(Main, ub)) =
                      FlipsIn(UpdateResult(tasks, devices, clock + 1, ub), devices, d)

\* the Fan was switched ON by the task of a tick and then OFF again: the
\* logger has two entries for it, ON then OFF
C32_Witness ==
    /\ ~halted
    /\ \E d \in Fans :
          /\ ~devices[d].isOn
          /\ Len(LogOf(logs, devices[d].name)) = 2
          /\ LogOf(logs, devices[d].name)[1].isOn
          /\ ~LogOf(logs, devices[d].name)[2].isOn
    /\ Len(tasks) = 1 /\ tasks[1].completed /\ tasks[1].turnOn

\* main's state after n consecutive tick commands from m, the undefined
\* division, where one is made, having outcome ub each time
RECURSIVE Ticked(_, _, _)
Ticked(m, n, ub) ==
    IF n = 0 \/ m.halted THEN m ELSE Ticked(TickCommand(m, ub), n - 1, ub)

\* the task at index i of main's queue is pending and stays so at the next
\* tick: its policy does not fire and nothing is applied for it
Sleeps(m, i, ub) ==
    LET r == UpdateResult(m.tasks, m.devices, m.clock + 1, ub) IN
    /\ ~m.tasks[i].completed
    /\ i \notin Range(r.fired)
    /\ AppliedFor(r, i) = {}
    /\ r.tasks[i] = m.tasks[i]

\* C34: a one-time task scheduled with trigger time T while the counter is
\* already >= T is pending and sleeps at the next tick, and so does, in every
\* state the ticks lead to, every pending one-time task whose trigger time is
\* not after the counter; toggle, sensor and schedule commands leave the
\* counter alone and a tick raises it, so that only reset lowers it, and
\* reset empties the queue, after which a tick applies nothing.
C34_LateOneTimeNeverFires ==
    ~halted =>
        /\ \A deviceName \in {"F1", "X1"}, state \in TypedStates, timeValue \in TypedSeconds :
              LET m0 == ScheduleCommand(Main, deviceName, state, "one-time", timeValue)
                  back == ResetCommand(m0)
              IN
              /\ m0.clock = clock
              /\ timeValue <= clock =>
                    \A ub \in Outcomes(tasks) :
                        /\ Sleeps(m0, Len(m0.tasks), ub)
                        /\ back.clock = 0 /\ back.tasks = <<>>
                        /\ TickCommand(back, ub).devices = devices
        /\ \A i \in 1..Len(tasks) :
              ( /\ tasks[i].strategy.kind = "OneTime"
                /\ ~tasks[i].completed
                /\ tasks[i].strategy.triggerTime <= clock ) =>
                  \A ub \in Outcomes(tasks) : Sleeps(Main, i, ub)
        /\ \A command \in TypedNames, value \in SensorValues, ub \in Outcomes(tasks) :
              /\ ToggleCommand(Main, command).clock = clock
              /\ SensorCommand(Main, value).clock = clock
              /\ TickCommand(Main, ub).clock > clock

\* the counter is at 1 or more and the queue holds a pending one-time task
\* for the Fan, which is in the other state, with a trigger time that is not
\* after the counter: the tick leaves the Fan as it is
C34_Witness ==
    /\ ~halted
    /\ clock >= 1
    /\ Len(tasks) = 1
    /\ tasks[1].strategy.kind = "OneTime"
    /\ tasks[1].strategy.triggerTime = clock
    /\ ~tasks[1].completed
    /\ \E d \in Fans :
          /\ devices[d].name = tasks[1].deviceName
          /\ devices[d].isOn # tasks[1].turnOn
          /\ TickCommand(Main, "true").devices[d] = devices[d]

\* device d of main's state m is a Thermostat holding one allocated policy
\* object, which no other Thermostat holds
HoldsOne(m, d) ==
    /\ m.devices[d].strategy # 0
    /\ Cardinality({o \in m.heap : o.id = m.devices[d].strategy}) = 1
    /\ ModeAt(m.heap, m.devices[d].strategy) \in Modes
    /\ \A e \in 1..Len(m.devices) :
          (e # d /\ m.devices[e].type = "Thermostat") =>
              m.devices[e].strategy # m.devices[d].strategy

\* C38: in the command-line program every registered Thermostat holds
\* exactly one policy, Eco or Comfort, in every reachable state, and no
\* policy object exists that no Thermostat holds.  A Thermostat added by the
\* add command holds Eco, after any sensor command every Thermostat holds
\* the policy the reading selects, a toggle into ON applies the held policy
\* and applyTemperatureStrategy always finds one.
C38_ThermostatAlwaysHoldsPolicy ==
    ~halted =>
        /\ Thermostats # {}
        /\ Ids(heap) = Held
        /\ \A d \in Thermostats :
              LET dev == devices[d] IN
              /\ HoldsOne(Main, d)
              /\ ~dev.isOn =>
                    LET g == VirtualToggle(dev) IN
                    Len(g.applied) = 1 /\ g.applied[1].ptr = dev.strategy
              /\ Len(ApplyTemperatureStrategy(dev).applied) = 1
              /\ \A value \in SensorValues :
                    LET sensed == SensorCommand(Main, value) IN
                    /\ HoldsOne(sensed, d)
                    /\ ModeAt(sensed.heap, sensed.devices[d].strategy) =
                          IF value > 28 THEN "Comfort" ELSE "Eco"
                    /\ Cardinality(sensed.heap) = Cardinality(heap)
        /\ \A name \in ThermostatNames :
              LET added == AddCommand(Main, "Thermostat", name)
                  d == Len(added.devices)
              IN
              /\ added.devices[d].type = "Thermostat"
              /\ HoldsOne(added, d)
              /\ ModeAt(added.heap, added.devices[d].strategy) = "Eco"
              /\ \A e \in Thermostats : HoldsOne(added, e)
              /\ \A value \in SensorValues :
                    LET sensed == SensorCommand(added, value) IN
                    \A e \in Thermostats \cup {d} : HoldsOne(sensed, e)

\* after a reading of 29 the Thermostat of main is OFF and holds Comfort:
\* the toggle switches it ON and applies that object
C38_Witness ==
    /\ ~halted
    /\ \E d \in Thermostats :
          /\ ~devices[d].isOn
          /\ HoldsOne(Main, d)
          /\ ModeAt(heap, devices[d].strategy) = "Comfort"
          /\ ToggleResult(devices, devices[d].name).applied =
                <<[ptr |-> devices[d].strategy, isOn |-> TRUE, notified |-> 1]>>
    /\ logs # <<>>

----------------------------------------------------------------------------
(* Properties of Delayed tasks, under DelayedSpec *)

IsDelayed(task) == task.strategy.kind = "Delayed"

\* C28: the fired-before flag of a Delayed policy belongs to its task. In
\* every update(t) a pending Delayed task fires exactly when its own flag is
\* clear and t has reached its own start time, its flag afterwards is its
\* flag before or that firing, the task comes out as it would from a queue
\* holding it alone, and once it has fired no later update fires it again.
C28_DelayedFlagIsPrivate ==
    \A i \in 1..Len(tasks) :
        (IsDelayed(tasks[i]) /\ ~tasks[i].completed) =>
            \A t \in Times :
                LET r == UpdateResult(tasks, devices, t, "true")
                    alone == UpdateResult(<<tasks[i]>>, devices, t, "true")
                    own == ~tasks[i].strategy.triggered /\ t >= tasks[i].strategy.startTime
                IN
                /\ i \in Range(r.fired) <=> own
                /\ Cardinality({k \in 1..Len(r.fired) : r.fired[k] = i}) <= 1
                /\ r.tasks[i].strategy.triggered <=> (tasks[i].strategy.triggered \/ own)
                /\ r.tasks[i] = alone.tasks[1]
                /\ own => \A t2 \in Times :
                             i \notin Range(UpdateResult(r.tasks, r.devices, t2, "true").fired)

\* two Delayed tasks with start times 1 and 2: the first has fired and is
\* completed, the second has not fired, and update(2) fires the second alone
C28_Witness ==
    /\ Len(tasks) = 2
    /\ IsDelayed(tasks[1]) /\ IsDelayed(tasks[2])
    /\ tasks[1].strategy.startTime = 1 /\ tasks[2].strategy.startTime = 2
    /\ tasks[1].strategy.triggered /\ tasks[1].completed
    /\ ~tasks[2].strategy.triggered
    /\ Resolves(devices, tasks[2].deviceName)
    /\ LET r == UpdateResult(tasks, devices, 2, "true") IN
          /\ r.fired = <<2>>
          /\ r.tasks[2].completed
          /\ r.tasks[1] = tasks[1]

\* C30: a Delayed(S) task first evaluated at a time t >= S while its device
\* name does not resolve comes out with its flag set, not completed and with
\* nothing applied; a Delayed task in that condition is not fired by any
\* update and nothing is applied for it, whether or not its name resolves by
\* then, and it is left exactly as it was, so it is never completed.
C30_UnresolvedDelayedIsInert ==
    \A i \in 1..Len(tasks) :
        (IsDelayed(tasks[i]) /\ ~tasks[i].completed) =>
            \A t \in Times :
                LET r == UpdateResult(tasks, devices, t, "true")
                    name == tasks[i].deviceName
                IN
                /\ ( /\ ~tasks[i].strategy.triggered
                     /\ t >= tasks[i].strategy.startTime
                     /\ ~Resolves(devices, name) ) =>
                        /\ r.tasks[i].strategy.triggered
                        /\ ~r.tasks[i].completed
                        /\ AppliedFor(r, i) = {}
                /\ tasks[i].strategy.triggered =>
                        /\ i \notin Range(r.fired)
                        /\ AppliedFor(r, i) = {}
                        /\ r.tasks[i] = tasks[i]

\* a Delayed task that fired while its name was unknown; the device has been
\* registered since and is in the other state, and update at the last time
\* of the model changes neither the device nor the task
C30_Witness ==
    \E i \in 1..Len(tasks), d \in 1..Len(devices) :
        LET r == UpdateResult(tasks, devices, MaxTime, "true") IN
        /\ IsDelayed(tasks[i])
        /\ tasks[i].strategy.triggered /\ ~tasks[i].completed
        /\ FirstNamed(devices, tasks[i].deviceName, d)
        /\ devices[d].isOn # tasks[i].turnOn
        /\ MaxTime >= tasks[i].strategy.startTime
        /\ r.devices[d] = devices[d]
        /\ r.tasks[i] = tasks[i]
        /\ Len(tasks) = 1

----------------------------------------------------------------------------
(* Properties of the command loop with tasks for the Thermostat, under      *)
(* PlanSpec                                                                 *)

\* C31: a Thermostat's policy is applied only by a toggle into ON or by
\* applyTemperatureStrategy.  setState(true) on a Thermostat that is OFF
\* turns it ON and notifies every observer but applies no policy, no setState
\* call made by the update of a tick applies one, and no sensor reaction
\* applies one; the toggle of the same Thermostat and the explicit call do.
C31_SetStateAppliesNoPolicy ==
    ~halted =>
        /\ \A d \in Thermostats :
              LET dev == devices[d] IN
              /\ \A on \in BOOLEAN : SetState(dev, on).applied = <<>>
              /\ \A value \in SensorValues :
                    OnSensorTriggered(dev, heap, value).applied = <<>>
              /\ (~dev.isOn /\ dev.strategy # 0) =>
                    LET s == SetState(dev, TRUE) IN
                    /\ s.device.isOn
                    /\ NotifiedAll(s.device, s.notes)
                    /\ s.notes # <<>>
                    /\ Len(VirtualToggle(dev).applied) = 1
                    /\ Len(ApplyTemperatureStrategy(dev).applied) = 1
        /\ \A ub \in Outcomes(tasks) :
              LET r == UpdateResult(tasks, devices, clock + 1, ub) IN
              \A k \in 1..Len(r.applied) : r.applied[k].policy = <<>>

\* the Thermostat is OFF and holds a policy, and the next tick fires a task
\* that turns it ON: the logger is told and no policy is applied
C31_Witness ==
    /\ ~halted
    /\ \E d \in Thermostats :
          LET r == UpdateResult(tasks, devices, clock + 1, "true") IN
          /\ ~devices[d].isOn
          /\ devices[d].strategy # 0
          /\ Len(r.applied) = 1
          /\ r.applied[1].device = d
          /\ r.devices[d].isOn
          /\ Len(r.applied[1].notes) = 1
          /\ r.applied[1].policy = <<>>

\* C36: a delayed task scheduled with seconds = n while the counter is c
\* gets the start time c + n.  For a name that resolves, and over the ticks
\* that follow with no reset in between, setState is called for the task at
\* exactly one tick, once and with the desired state on the device of that
\* name: the tick that brings the counter to c + n when n >= 1, the very
\* next tick when n <= 0.
C36_DelayedCountsFromNow ==
    ~halted =>
        \A deviceName \in PlanNames \cap Registered, state \in TypedStates,
           timeValue \in PlanSeconds, ub \in Outcomes(tasks) :
            LET m0 == ScheduleCommand(Main, deviceName, state, "delayed", timeValue)
                i == Len(m0.tasks)
                due == IF timeValue >= 1 THEN timeValue ELSE 1
            IN
            /\ m0.tasks[i].strategy.startTime = clock + timeValue
            /\ \A j \in 1..MaxTicks :
                  LET m == Ticked(m0, j - 1, ub)
                      r == UpdateResult(m.tasks, m.devices, m.clock + 1, ub)
                  IN
                  (~m.halted /\ Passed(r, i)) =>
                      /\ m.clock + 1 = clock + j
                      /\ IF j = due
                         THEN /\ AppliedOnce(r, m.tasks, m.devices, i)
                              /\ r.tasks[i].completed
                              /\ timeValue >= 1 => m.clock + 1 = clock + timeValue
                         ELSE AppliedFor(r, i) = {}

\* the counter is 1 and the queue holds the task `T1 on delayed 2`, start
\* time 3, while the Thermostat is OFF: the first tick leaves the Thermostat
\* OFF, the second switches it ON and completes the task
C36_Witness ==
    /\ ~halted
    /\ clock = 1
    /\ Len(tasks) = 1
    /\ IsDelayed(tasks[1])
    /\ tasks[1].strategy.startTime = 3
    /\ ~tasks[1].strategy.triggered
    /\ tasks[1].turnOn
    /\ \E d \in Thermostats :
          /\ devices[d].name = tasks[1].deviceName
          /\ ~devices[d].isOn
          /\ ~Ticked(Main, 1, "true").devices[d].isOn
          /\ Ticked(Main, 2, "true").devices[d].isOn
          /\ Ticked(Main, 2, "true").tasks[1].completed

\* the devices registered after another device of the same name
Shadowed == {d \in 1..Len(devices) : \E e \in 1..(d - 1) : devices[e].name = devices[d].name}

\* C33: when two registered devices share a name, a toggle by that name
\* flips the one registered first and the setState calls of a tick are made
\* on the one registered first; the later one comes out of every toggle,
\* schedule, add and tick command exactly as it was, and only a sensor
\* command can change it.
C33_FirstOfNameActs ==
    ~halted =>
        \A d \in Shadowed :
            LET name == devices[d].name IN
            /\ \A command \in PlanNames \cup Registered :
                  ToggleCommand(Main, command).devices[d] = devices[d]
            /\ \E e \in 1..(d - 1) :
                  /\ FirstNamed(devices, name, e)
                  /\ ToggleCommand(Main, name).devices[e].isOn # devices[e].isOn
            /\ \A ub \in Outcomes(tasks) :
                  LET r == UpdateResult(tasks, devices, clock + 1, ub) IN
                  /\ TickCommand(Main, ub).devices[d] = devices[d]
                  /\ \A k \in 1..Len(r.applied) : r.applied[k].device # d
            /\ \A deviceName \in PlanNames, state \in TypedStates,
                  strategyType \in Keywords, timeValue \in PlanSeconds :
                  ScheduleCommand(Main, deviceName, state, strategyType,
                                  timeValue).devices[d] = devices[d]
            /\ \A type \in DeviceTypes : AddCommand(Main, type, name).devices[d] = devices[d]
            /\ ResetCommand(Main).devices[d] = devices[d]

\* a Fan registered under the name the Thermostat has: it is OFF, the
\* Thermostat is ON, a task is about to switch the name OFF; the tick and the
\* toggle act on the Thermostat and a reading of 29 switches the Fan ON
C33_Witness ==
    /\ ~halted
    /\ \E d \in Shadowed, e \in Thermostats :
          LET r == TickCommand(Main, "true") IN
          /\ devices[d].name = devices[e].name
          /\ devices[d].type = "Fan"
          /\ ~devices[d].isOn
          /\ devices[e].isOn
          /\ ~r.devices[e].isOn
          /\ r.devices[d] = devices[d]
          /\ ~ToggleCommand(Main, devices[d].name).devices[e].isOn
          /\ SensorCommand(Main, 29).devices[d].isOn

----------------------------------------------------------------------------
(* Completion without a change of state, under Spec *)

\* C35: when a OneTime or Delayed task fires and its device, which
\* resolves, is already in the desired state at that moment, the setState
\* call is made, it notifies nobody and leaves the device as it was, and the
\* task is completed by that update call all the same.
C35_CompletedWithoutChange ==
    \A t \in Times, ub \in Outcomes(tasks) :
        LET r == UpdateResult(tasks, devices, t, ub) IN
        /\ \A k \in 1..Len(r.applied) :
              LET i == r.applied[k].task
                  d == r.applied[k].device
              IN
              ( /\ tasks[i].strategy.kind \in {"OneTime", "Delayed"}
                /\ r.applied[k].on = StateBefore(r, devices, d, k) ) =>
                  /\ r.applied[k].notes = <<>>
                  /\ r.tasks[i].completed
                  /\ ~tasks[i].completed
        /\ (\A k \in 1..Len(r.applied) : r.applied[k].notes = <<>>) => r.devices = devices

\* a pending OneTime and a pending Delayed task, both for the Fan and both
\* asking for the state the Fan is in: update(1) completes both, the Fan is
\* as it was and the logger hears nothing
C35_Witness ==
    /\ ~halted
    /\ Len(tasks) = 2 /\ Len(devices) = 1
    /\ tasks[1].strategy.kind = "OneTime" /\ tasks[2].strategy.kind = "Delayed"
    /\ ~tasks[1].completed /\ ~tasks[2].completed
    /\ tasks[1].deviceName = devices[1].name /\ tasks[2].deviceName = devices[1].name
    /\ tasks[1].turnOn = devices[1].isOn /\ tasks[2].turnOn = devices[1].isOn
    /\ devices[1].observers # <<>>
    /\ LET r == UpdateResult(tasks, devices, 1, "true") IN
          /\ Len(r.applied) = 2
          /\ r.applied[1].notes = <<>> /\ r.applied[2].notes = <<>>
          /\ r.tasks[1].completed /\ r.tasks[2].completed
          /\ r.devices = devices

----------------------------------------------------------------------------
(* Completion under repeated ticks, under FairSpec *)

\* task i is pending, its device name resolves and its policy is due to
\* fire at a tick the model still makes: a OneTime task with a trigger time
\* after the counter, or a Delayed task that has not fired
Due(i) ==
    /\ ~halted
    /\ i <= Len(tasks)
    /\ ~tasks[i].completed
    /\ Resolves(devices, tasks[i].deviceName)
    /\ \/ /\ tasks[i].strategy.kind = "OneTime"
          /\ tasks[i].strategy.triggerTime > clock
          /\ tasks[i].strategy.triggerTime <= MaxClock
       \/ /\ IsDelayed(tasks[i])
          /\ ~tasks[i].strategy.triggered
          /\ clock < MaxClock
          /\ tasks[i].strategy.startTime <= MaxClock

Settled(i) == halted \/ (i <= Len(tasks) /\ tasks[i].completed)

\* C37: under repeated tick commands with no reset, every OneTime task
\* whose trigger time is after the counter and every Delayed task that has
\* not fired, its device name resolving, is eventually completed, unless the
\* division by zero of a Periodic(0) task ends the process first; a Periodic
\* task is never completed.
C37_DueTasksComplete ==
    /\ \A i \in 1..MaxQueued : Due(i) ~> Settled(i)
    /\ [](\A i \in 1..Len(tasks) : tasks[i].strategy.kind = "Periodic" => ~tasks[i].completed)

\* the counter has reached 2 and the queue holds a task for the Thermostat
\* that fired at 2 and is completed
C37_Witness ==
    /\ ~halted
    /\ clock = 2
    /\ Len(tasks) >= 1
    /\ tasks[1].completed
    /\ tasks[1].strategy.kind \in {"OneTime", "Delayed"}
    /\ (tasks[1].strategy.kind = "OneTime" => tasks[1].strategy.triggerTime = 2)
    /\ (IsDelayed(tasks[1]) => tasks[1].strategy.startTime = 2)
    /\ Resolves(devices, tasks[1].deviceName)
    /\ logs # <<>>

====
